---- MODULE Spec2Model ----
(***************************************************************************)
(* Granular Certificate registry.                                          *)
(*                                                                         *)
(* Part I  (SpecCQRS): the CQRS coordinator of                             *)
(*   gc_registry/core/database/cqrs.py, step by step, for concurrent       *)
(*   requests: write-flush, read-flush, event append, write-commit,        *)
(*   read-commit, with failures and aborts at every step.                  *)
(* Part II (Spec): the certificate bundle ledger of                        *)
(*   gc_registry/certificate/services.py: issuance, validation, split      *)
(*   and the lifecycle actions, every handler taken as one step.           *)
(*   SpecTrade adds the transfers and the whitelist updates of             *)
(*   gc_registry/account/validation.py; SpecSplit is                       *)
(*   split_certificate_bundle on its own.                                  *)
(* Part III (SpecConcIssue, SpecConcTransfer): issuance and transfer cut   *)
(*   between their reads and their writes, for requests in flight          *)
(*   together.                                                             *)
(* Part IV (SpecRoutes, SpecAccounts): the lifecycle routes of             *)
(*   gc_registry/certificate/routes.py with their role and account         *)
(*   checks, and the account update of gc_registry/account.                *)
(* Part V  (SpecIssuance): issuance over a requested period, with the      *)
(*   production intervals of the bundles, and the bundle query.            *)
(* Part VI (SpecSigned): the lifecycle actions with a certificate_quantity *)
(*   of either sign.                                                       *)
(* Part VII (SpecSplitFaults, SpecConcSplit): a partial transfer cut at    *)
(*   the coordinator calls of its split, with failing calls and with two   *)
(*   requests in flight.                                                   *)
(* Part VIII: issuance of storage discharge certificates of                *)
(*   gc_registry/storage/services.py, over the ledger of Part II.          *)
(* Part IX (SpecMemory): the in-memory registry and trading system of      *)
(*   granular_certificate_registry.                                        *)
(***************************************************************************)
EXTENDS Integers, Sequences, FiniteSets, TLC

(***************************************************************************)
(* Bounds                                                                  *)
(***************************************************************************)
NumReqs == 2
MaxIds == 3
MaxCalls == 2
MaxFaults == 1

Reqs == 1..NumReqs
Ids == 1..MaxIds
CallIds == 1..MaxCalls

(***************************************************************************)
(* Part I: state of the two stores, the event stream and the sessions      *)
(***************************************************************************)
VARIABLES
    wdb,        \* committed rows of the write store, by primary key
    rdb,        \* committed rows of the read store, by primary key
    events,     \* the event stream "events"
    nextId,     \* the write store's primary-key sequence
    stagedW,    \* rows flushed but not committed in each request's write session
    stagedR,    \* rows flushed but not committed in each request's read session
    wlock,      \* row locks of the write store (0 = free)
    rlock,      \* row locks of the read store (0 = free)
    pc,         \* the step each request's coordinator call is about to take
    cur,        \* the call each request is executing (0 = none)
    calls,      \* what is known about every call made so far
    commitLog   \* the order in which calls committed to the write store

cqrsVars == <<wdb, rdb, events, nextId, stagedW, stagedR, wlock, rlock,
              pc, cur, calls, commitLog>>

NoRow == [kind |-> "none", ver |-> 0, delBy |-> 0]
NoStage == [i \in Ids |-> NoRow]
NoCall == [op |-> "unused", kind |-> "none", ids |-> {}, req |-> 0,
           result |-> "pending", fail |-> "", at |-> "", before |-> 0]

\* EventTypes, gc_registry/core/models/base.py
EventTypes == {"CREATE", "UPDATE", "DELETE"}

\* the rows a session has staged override the committed rows at commit
ApplyStaged(db, staged) ==
    [i \in Ids |-> IF staged[i] # NoRow THEN staged[i] ELSE db[i]]

Release(lock, r) == [i \in Ids |-> IF lock[i] = r THEN 0 ELSE lock[i]]

Acquire(lock, r, S) == [i \in Ids |-> IF i \in S THEN r ELSE lock[i]]

\* a flush that takes no row lock
LocksIgnored(lock, r, S) == TRUE

LocksFree(lock, r, S) == \A i \in S : lock[i] \in {0, r}

\* the steps of a call that commits both stores before it appends the event
NextPcCommitFirst(step) ==
    CASE step = "wflush" -> "rflush"
      [] step = "rflush" -> "wcommit"
      [] step = "wcommit" -> "rcommit"
      [] step = "rcommit" -> "event"
      [] step = "event" -> "done"

\* the steps of one coordinator call, in the order the code takes them
NextPc(step) ==
    CASE step = "wflush" -> "rflush"
      [] step = "rflush" -> "event"
      [] step = "event" -> "wcommit"
      [] step = "wcommit" -> "rcommit"
      [] step = "rcommit" -> "done"

\* the ledger's variables (Part II)
VARIABLES
    bundles,    \* the granularcertificatebundle table; a row's id is its index
    actions,    \* the granularcertificateaction table, in creation order
    links,      \* the accountwhitelistlink table, by <<target, source>>
    pending,    \* per request, the handler call it is in the middle of (Part III)
    account_user_ids,     \* the user_ids column of the account table (Part IV)
    user_account_links    \* the rows of the useraccountlink table, <<user, account>>

accVars == <<account_user_ids, user_account_links>>

regVars == <<bundles, actions, links, pending, accVars>>

\* the in-memory registry's variables (Part IX)
VARIABLES
    hourly_certificates,      \* CertificateRegistry.hourly_certificates, by certificate id
    certificates_by_owner,    \* CertificateRegistry.certificates_by_owner, by owner
    trades                    \* CertificateTrading.trades, in creation order

memVars == <<hourly_certificates, certificates_by_owner, trades>>

\* CertificateRegistry() and CertificateTrading(registry): empty dicts
InitMemory ==
    /\ hourly_certificates = <<>>
    /\ certificates_by_owner = <<>>
    /\ trades = <<>>

vars == <<wdb, rdb, events, nextId, stagedW, stagedR, wlock, rlock,
          pc, cur, calls, commitLog, bundles, actions, links, pending,
          account_user_ids, user_account_links,
          hourly_certificates, certificates_by_owner, trades>>

NumAccounts == 2     \* accounts of the registry

Accounts == 1..NumAccounts

\* a request that is in no handler
NoPending == [op |-> "none"]

NumUsers == 3        \* users of the registry

Users == 1..NumUsers

\* UserRoles
ADMIN == 4
PRODUCTION_USER == 3
TRADING_USER == 2
AUDIT_USER == 1

\* the role column of the user table: an administrator, a trading user,
\* audit users
UserRole(u) ==
    CASE u = 1 -> ADMIN
      [] u = 2 -> TRADING_USER
      [] OTHER -> AUDIT_USER

\* create_account links the account to the users of the request and to the
\* user who creates it: the administrator creates account 1 for every user
\* and the other accounts for no one else
CreatedUserIds(a) == IF a = 1 THEN Users ELSE {1}

InitRegistry ==
    /\ bundles = <<>>
    /\ actions = <<>>
    /\ links = [p \in Accounts \X Accounts |-> "none"]
    /\ pending = [r \in Reqs |-> NoPending]
    /\ account_user_ids = [a \in Accounts |-> CreatedUserIds(a)]
    /\ user_account_links = {<<u, a>> \in Users \X Accounts : u \in CreatedUserIds(a)}

RECURSIVE AscendingSeq(_)
AscendingSeq(S) ==
    IF S = {} THEN <<>>
    ELSE LET m == CHOOSE x \in S : \A y \in S : x <= y
         IN  <<m>> \o AscendingSeq(S \ {m})

\* the call id the next coordinator call gets
FreeCalls == {c \in CallIds : calls[c].op = "unused"}
NextCall == CHOOSE c \in FreeCalls : \A d \in FreeCalls : c <= d

\* the rows a write session holds for the entities of a call, as flushed
\* and refreshed: created rows, or the stored row with the update applied
FlushedRows(c, call, base, ids) ==
    [i \in Ids |->
        IF i \notin ids THEN NoRow
        ELSE CASE call.op = "write" -> [kind |-> call.kind, ver |-> c, delBy |-> 0]
               [] call.op = "update" -> [base[i] EXCEPT !.ver = c]
               [] call.op = "delete" -> [base[i] EXCEPT !.delBy = c]]

Merge(staged, rows) ==
    [i \in Ids |-> IF rows[i] # NoRow THEN rows[i] ELSE staged[i]]

\* a single event for the first entity of the call only
EventsForFirstOnly(c, call) ==
    LET ids == AscendingSeq(call.ids)
        type == CASE call.op = "write" -> "CREATE"
                  [] call.op = "update" -> "UPDATE"
                  [] call.op = "delete" -> "DELETE"
    IN  IF call.op = "write" /\ call.kind = "UserAccountLink" THEN <<>>
        ELSE <<[type |-> type, id |-> ids[1], name |-> call.kind, call |-> c,
                before |-> IF call.op = "update" THEN call.before ELSE 0,
                after |-> IF call.op = "update" THEN c ELSE 0]>>

\* the events one call hands to the event store: one per entity, in entity
\* order; none when the first entity is a UserAccountLink
EventsFor(c, call) ==
    LET ids == AscendingSeq(call.ids)
        type == CASE call.op = "write" -> "CREATE"
                  [] call.op = "update" -> "UPDATE"
                  [] call.op = "delete" -> "DELETE"
    IN  IF call.op = "write" /\ call.kind = "UserAccountLink" THEN <<>>
        ELSE [k \in 1..Len(ids) |->
                [type |-> type, id |-> ids[k], name |-> call.kind, call |-> c,
                 before |-> IF call.op = "update" THEN call.before ELSE 0,
                 after |-> IF call.op = "update" THEN c ELSE 0]]

\* events.batch_create_events / events.create_event: the batch is appended
\* to the stream in order, as one unit
AppendBatch(stream, evs) == stream \o evs

\* what a failed staging step returns: write_to_database re-raises, the
\* update and delete calls return None
StagingFailureResult(op) == IF op = "write" THEN "raised" ELSE "none"

\* a read-store failure that leaves the write session as it is
WriteSessionKept(staged, r) == staged

\* the write session after the read store failed to stage: rolled back
WriteSessionAfterReadFailure(staged, r) == [staged EXCEPT ![r] = NoStage]

InitCQRS ==
    /\ wdb = [i \in Ids |-> IF i = 1 THEN [kind |-> "Entity", ver |-> 0, delBy |-> 0]
                            ELSE NoRow]
    /\ rdb = wdb
    /\ events = <<>>
    /\ nextId = 2
    /\ stagedW = [r \in Reqs |-> NoStage]
    /\ stagedR = [r \in Reqs |-> NoStage]
    /\ wlock = [i \in Ids |-> 0]
    /\ rlock = [i \in Ids |-> 0]
    /\ pc = [r \in Reqs |-> "done"]
    /\ cur = [r \in Reqs |-> 0]
    /\ calls = [c \in CallIds |-> NoCall]
    /\ commitLog = <<>>

\* failures and cancellations are injected at most MaxFaults times
CanFail == Cardinality({c \in CallIds : calls[c].fail # ""}) < MaxFaults

CanStart(r) == pc[r] = "done" /\ FreeCalls # {}

\* write_to_database is entered with n new entities of one class
StartWrite(r, n, kind) ==
    /\ CanStart(r)
    /\ nextId + n - 1 <= MaxIds
    /\ calls' = [calls EXCEPT ![NextCall] =
                   [NoCall EXCEPT !.op = "write", !.kind = kind, !.req = r,
                                  !.before = n]]
    /\ cur' = [cur EXCEPT ![r] = NextCall]
    /\ pc' = [pc EXCEPT ![r] = "wflush"]
    /\ UNCHANGED <<wdb, rdb, events, nextId, stagedW, stagedR, wlock, rlock,
                   commitLog, regVars, memVars>>

\* update_database_entity is entered with an entity loaded from the write
\* store; before_data is read from it
StartUpdate(r, e) ==
    /\ CanStart(r)
    /\ wdb[e] # NoRow
    /\ calls' = [calls EXCEPT ![NextCall] =
                   [NoCall EXCEPT !.op = "update", !.kind = wdb[e].kind,
                                  !.ids = {e}, !.req = r, !.before = wdb[e].ver]]
    /\ cur' = [cur EXCEPT ![r] = NextCall]
    /\ pc' = [pc EXCEPT ![r] = "wflush"]
    /\ UNCHANGED <<wdb, rdb, events, nextId, stagedW, stagedR, wlock, rlock,
                   commitLog, regVars, memVars>>

\* delete_database_entities is entered with entities loaded from the write store
StartDelete(r, S) ==
    /\ CanStart(r)
    /\ S # {}
    /\ \A e \in S : wdb[e] # NoRow
    /\ calls' = [calls EXCEPT ![NextCall] =
                   [NoCall EXCEPT !.op = "delete",
                                  !.kind = wdb[CHOOSE e \in S : \A f \in S : e <= f].kind,
                                  !.ids = S, !.req = r]]
    /\ cur' = [cur EXCEPT ![r] = NextCall]
    /\ pc' = [pc EXCEPT ![r] = "wflush"]
    /\ UNCHANGED <<wdb, rdb, events, nextId, stagedW, stagedR, wlock, rlock,
                   commitLog, regVars, memVars>>

\* the result a call has once the given step is taken
Advance(c, step) ==
    IF NextPc(step) = "done" THEN [calls EXCEPT ![c].result = "ok"] ELSE calls

\* write_session.add / flush / refresh succeeds
WriteFlush(r) ==
    /\ pc[r] = "wflush"
    /\ LET c == cur[r]
           call == calls[c]
           ids == IF call.op = "write" THEN nextId..(nextId + call.before - 1)
                  ELSE call.ids
           call2 == [call EXCEPT !.ids = ids]
       IN  /\ ids \subseteq Ids
           /\ LocksFree(wlock, r, ids)
           /\ wlock' = Acquire(wlock, r, ids)
           /\ stagedW' = [stagedW EXCEPT ![r] =
                            Merge(@, FlushedRows(c, call2, ApplyStaged(wdb, stagedW[r]), ids))]
           /\ nextId' = IF call.op = "write" THEN nextId + call.before ELSE nextId
           /\ calls' = [Advance(c, "wflush") EXCEPT ![c].ids = ids]
           /\ pc' = [pc EXCEPT ![r] = NextPc("wflush")]
    /\ UNCHANGED <<wdb, rdb, events, stagedR, rlock, cur, commitLog, regVars, memVars>>

\* the write store raises while staging: the write session is rolled back
WriteFlushFail(r) ==
    /\ pc[r] = "wflush"
    /\ CanFail
    /\ LET c == cur[r]
           res == StagingFailureResult(calls[c].op)
       IN  /\ calls' = [calls EXCEPT ![c].result = res, ![c].fail = "wflush"]
           /\ pc' = [pc EXCEPT ![r] = IF res = "raised" THEN "raised" ELSE "done"]
    /\ stagedW' = [stagedW EXCEPT ![r] = NoStage]
    /\ wlock' = Release(wlock, r)
    /\ UNCHANGED <<wdb, rdb, events, nextId, stagedR, rlock, cur, commitLog, regVars, memVars>>

\* read_session.merge / add / flush succeeds: the read session stages the
\* same rows, under the same primary keys
ReadFlush(r) ==
    /\ pc[r] = "rflush"
    /\ LET c == cur[r]
           ids == calls[c].ids
       IN  /\ LocksFree(rlock, r, ids)
           /\ rlock' = Acquire(rlock, r, ids)
           /\ stagedR' = [stagedR EXCEPT ![r] =
                            Merge(@, [i \in Ids |-> IF i \in ids
                                                    THEN ApplyStaged(wdb, stagedW[r])[i]
                                                    ELSE NoRow])]
           /\ calls' = Advance(c, "rflush")
           /\ pc' = [pc EXCEPT ![r] = NextPc("rflush")]
    /\ UNCHANGED <<wdb, rdb, events, nextId, stagedW, wlock, cur, commitLog, regVars, memVars>>

\* the read store raises while staging: both sessions are rolled back
ReadFlushFail(r) ==
    /\ pc[r] = "rflush"
    /\ CanFail
    /\ LET c == cur[r]
           res == StagingFailureResult(calls[c].op)
       IN  /\ calls' = [calls EXCEPT ![c].result = res, ![c].fail = "rflush"]
           /\ pc' = [pc EXCEPT ![r] = IF res = "raised" THEN "raised" ELSE "done"]
    /\ stagedW' = WriteSessionAfterReadFailure(stagedW, r)
    /\ stagedR' = [stagedR EXCEPT ![r] = NoStage]
    /\ wlock' = IF stagedW'[r] = NoStage THEN Release(wlock, r) ELSE wlock
    /\ rlock' = Release(rlock, r)
    /\ UNCHANGED <<wdb, rdb, events, nextId, cur, commitLog, regVars, memVars>>

\* batch_create_events / create_event succeeds
AppendEvent(r) ==
    /\ pc[r] = "event"
    /\ LET c == cur[r]
       IN  /\ events' = AppendBatch(events, EventsFor(c, calls[c]))
           /\ calls' = Advance(c, "event")
           /\ pc' = [pc EXCEPT ![r] = NextPc("event")]
    /\ UNCHANGED <<wdb, rdb, nextId, stagedW, stagedR, wlock, rlock, cur,
                   commitLog, regVars, memVars>>

\* the event store raises: nothing catches it in the coordinator, the
\* exception leaves the call with both sessions as they are
AppendEventFail(r) ==
    /\ pc[r] = "event"
    /\ CanFail
    /\ EventsFor(cur[r], calls[cur[r]]) # <<>>
    /\ calls' = [calls EXCEPT ![cur[r]].result = "raised", ![cur[r]].fail = "event"]
    /\ pc' = [pc EXCEPT ![r] = "raised"]
    /\ UNCHANGED <<wdb, rdb, events, nextId, stagedW, stagedR, wlock, rlock, cur,
                   commitLog, regVars, memVars>>

\* write_session.commit() succeeds
CommitWrite(r) ==
    /\ pc[r] = "wcommit"
    /\ LET c == cur[r]
       IN  /\ wdb' = ApplyStaged(wdb, stagedW[r])
           /\ commitLog' = Append(commitLog, c)
           /\ calls' = Advance(c, "wcommit")
           /\ pc' = [pc EXCEPT ![r] = NextPc("wcommit")]
    /\ stagedW' = [stagedW EXCEPT ![r] = NoStage]
    /\ wlock' = Release(wlock, r)
    /\ UNCHANGED <<rdb, events, nextId, stagedR, rlock, cur, regVars, memVars>>

\* write_session.commit() raises: the write transaction is lost
CommitWriteFail(r) ==
    /\ pc[r] = "wcommit"
    /\ CanFail
    /\ calls' = [calls EXCEPT ![cur[r]].result = "raised", ![cur[r]].fail = "wcommit"]
    /\ pc' = [pc EXCEPT ![r] = "raised"]
    /\ stagedW' = [stagedW EXCEPT ![r] = NoStage]
    /\ wlock' = Release(wlock, r)
    /\ UNCHANGED <<wdb, rdb, events, nextId, stagedR, rlock, cur, commitLog, regVars, memVars>>

\* read_session.commit() succeeds
CommitRead(r) ==
    /\ pc[r] = "rcommit"
    /\ LET c == cur[r]
       IN  /\ rdb' = ApplyStaged(rdb, stagedR[r])
           /\ calls' = Advance(c, "rcommit")
           /\ pc' = [pc EXCEPT ![r] = NextPc("rcommit")]
    /\ stagedR' = [stagedR EXCEPT ![r] = NoStage]
    /\ rlock' = Release(rlock, r)
    /\ UNCHANGED <<wdb, events, nextId, stagedW, wlock, cur, commitLog, regVars, memVars>>

\* read_session.commit() raises: the read transaction is lost
CommitReadFail(r) ==
    /\ pc[r] = "rcommit"
    /\ CanFail
    /\ calls' = [calls EXCEPT ![cur[r]].result = "raised", ![cur[r]].fail = "rcommit"]
    /\ pc' = [pc EXCEPT ![r] = "raised"]
    /\ stagedR' = [stagedR EXCEPT ![r] = NoStage]
    /\ rlock' = Release(rlock, r)
    /\ UNCHANGED <<wdb, rdb, events, nextId, stagedW, wlock, cur, commitLog, regVars, memVars>>

\* an exception has left the coordinator: the request ends and its two
\* sessions are closed, which discards what they had staged
CloseSessions(r) ==
    /\ pc[r] = "raised"
    /\ stagedW' = [stagedW EXCEPT ![r] = NoStage]
    /\ stagedR' = [stagedR EXCEPT ![r] = NoStage]
    /\ wlock' = Release(wlock, r)
    /\ rlock' = Release(rlock, r)
    /\ pc' = [pc EXCEPT ![r] = "done"]
    /\ UNCHANGED <<wdb, rdb, events, nextId, cur, calls, commitLog, regVars, memVars>>

\* the request is cancelled between two steps of a call: its sessions are
\* closed where they stand
Abort(r) ==
    /\ pc[r] \in {"rflush", "event", "wcommit", "rcommit"}
    /\ CanFail
    /\ calls' = [calls EXCEPT ![cur[r]].result = "cancelled", ![cur[r]].fail = "abort",
                                ![cur[r]].at = pc[r]]
    /\ stagedW' = [stagedW EXCEPT ![r] = NoStage]
    /\ stagedR' = [stagedR EXCEPT ![r] = NoStage]
    /\ wlock' = Release(wlock, r)
    /\ rlock' = Release(rlock, r)
    /\ pc' = [pc EXCEPT ![r] = "done"]
    /\ UNCHANGED <<wdb, rdb, events, nextId, cur, commitLog, regVars, memVars>>

NextCQRS ==
    \/ \E r \in Reqs, n \in 1..2, k \in {"Entity", "UserAccountLink"} : StartWrite(r, n, k)
    \/ \E r \in Reqs, e \in Ids : StartUpdate(r, e)
    \/ \E r \in Reqs, S \in SUBSET Ids : StartDelete(r, S)
    \/ \E r \in Reqs : WriteFlush(r)
    \/ \E r \in Reqs : WriteFlushFail(r)
    \/ \E r \in Reqs : ReadFlush(r)
    \/ \E r \in Reqs : ReadFlushFail(r)
    \/ \E r \in Reqs : AppendEvent(r)
    \/ \E r \in Reqs : AppendEventFail(r)
    \/ \E r \in Reqs : CommitWrite(r)
    \/ \E r \in Reqs : CommitWriteFail(r)
    \/ \E r \in Reqs : CommitRead(r)
    \/ \E r \in Reqs : CommitReadFail(r)
    \/ \E r \in Reqs : CloseSessions(r)
    \/ \E r \in Reqs : Abort(r)

(***************************************************************************)
(* Part I: properties of the coordinator                                   *)
(***************************************************************************)
EventsOf(stream, c) == {k \in 1..Len(stream) : stream[k].call = c}

\* the store holds a row that call c created, updated or soft-deleted
Holds(db, c) == \E i \in Ids : db[i] # NoRow /\ (db[i].ver = c \/ db[i].delBy = c)

\* the row carries the change call c makes to it
Carries(row, c, op) ==
    /\ row # NoRow
    /\ IF op = "delete" THEN row.delBy = c ELSE row.ver = c

InCommitLog(c) == \E k \in 1..Len(commitLog) : commitLog[k] = c
LogPos(c) == CHOOSE k \in 1..Len(commitLog) : commitLog[k] = c

StagingFailed(c) == calls[c].fail \in {"wflush", "rflush"}

\* C1: when the event-store append of a call fails, the caller gets an
\* error, no event of the call is in the stream, and neither the write
\* store nor the read store ever holds the call's change.
C1_EventFailureCommitsNothing ==
    \A c \in CallIds :
        calls[c].fail = "event" =>
            /\ calls[c].result = "raised"
            /\ EventsOf(events, c) = {}
            /\ ~Holds(wdb, c)
            /\ ~Holds(rdb, c)

C1_Witness ==
    \E c \in CallIds :
        /\ calls[c].fail = "event"
        /\ pc[calls[c].req] = "done"
        /\ stagedW[calls[c].req] = NoStage

\* the number of events a successful call leaves in the stream
ExpectedEvents(call) ==
    IF call.op = "write" /\ call.kind = "UserAccountLink" THEN 0
    ELSE Cardinality(call.ids)

\* request r's call returns successfully in this step
Completes(r) ==
    /\ cur[r] # 0
    /\ calls[cur[r]].result = "pending"
    /\ calls'[cur[r]].result = "ok"

C3_StagingFailureRollsBackBoth ==
    /\ \A c \in CallIds :
          StagingFailed(c) =>
             /\ EventsOf(events, c) = {}
             /\ ~Holds(wdb, c)
             /\ ~Holds(rdb, c)
    /\ \A r \in Reqs :
          (cur[r] # 0 /\ StagingFailed(cur[r])) =>
             /\ stagedW[r] = NoStage
             /\ stagedR[r] = NoStage
             /\ \A i \in Ids : wlock[i] # r /\ rlock[i] # r

C3_Witness ==
    \E r \in Reqs :
        /\ cur[r] # 0
        /\ calls[cur[r]].fail = "rflush"
        /\ calls[cur[r]].op \in {"update", "delete"}
        /\ pc[r] = "done"

\* C4: a write-store or read-store failure in a coordinator call is raised
\* to the caller: no call whose change was rolled back returns normally.
C4_StagingFailureIsRaised ==
    \A c \in CallIds : StagingFailed(c) => calls[c].result = "raised"

\* C5: a call cancelled at a suspension point (after either flush, after
\* the event append, between the two commits) leaves no event of the call
\* in the stream and its change in neither store.
C5_CancellationLeavesNothing ==
    \A c \in CallIds :
        calls[c].result = "cancelled" =>
            /\ EventsOf(events, c) = {}
            /\ ~Holds(wdb, c)
            /\ ~Holds(rdb, c)

\* C6: once a call has ended, the read store holds its change if and only
\* if the write store holds it, also when the read-store commit failed
\* after the write-store commit.
C6_AtomicVisibility ==
    \A c \in CallIds :
        (calls[c].op # "unused" /\ calls[c].result # "pending") =>
            (Holds(wdb, c) <=> Holds(rdb, c))

\* C7: for any single entity, the events of the calls that committed are
\* in the stream in the order in which those calls committed to the write
\* store.
C7_EventOrderIsCommitOrder ==
    \A j, k \in 1..Len(events) :
        (/\ j < k
         /\ events[j].id = events[k].id
         /\ InCommitLog(events[j].call)
         /\ InCommitLog(events[k].call))
        => LogPos(events[j].call) < LogPos(events[k].call)

C7_Witness ==
    \E j, k \in 1..Len(events) :
        /\ j < k
        /\ events[j].id = events[k].id
        /\ calls[events[j].call].req # calls[events[k].call].req
        /\ InCommitLog(events[j].call)
        /\ InCommitLog(events[k].call)

InitAll == InitCQRS /\ InitRegistry /\ InitMemory

SpecCQRS == InitAll /\ [][NextCQRS]_vars

(***************************************************************************)
(* Part II: the certificate bundle ledger                                  *)
(***************************************************************************)

\* bounds of the ledger
NumDevices == 2      \* registered production devices
MaxBundles == 3      \* rows of the bundle table
MaxBatch == 2        \* meter readings of one issuance call
DeviceMaxWh == 2     \* Wh a device can produce in one certificate interval
MaxActions == 2      \* rows of the action table

Devices == 1..NumDevices
BundleIds == 1..MaxBundles

\* settings.CAPACITY_MARGIN = 1.1, in tenths
CapacityMarginTenths == 11

\* Python's None for an optional integer
NoneVal == -1

CertificateStatus ==
    {"ACTIVE", "CANCELLED", "CLAIMED", "EXPIRED", "WITHDRAWN", "LOCKED",
     "RESERVED", "BUNDLE_SPLIT"}

\* the floats 0.5 and 1.0 of certificate_bundle_percentage, in percent
Percentages == {50, 100}

\* the partial selectors of an action request
Selectors ==
    {[certificate_quantity |-> NoneVal, certificate_bundle_percentage |-> NoneVal]}
    \cup {[certificate_quantity |-> q, certificate_bundle_percentage |-> NoneVal] :
             q \in 0..DeviceMaxWh}
    \cup {[certificate_quantity |-> NoneVal, certificate_bundle_percentage |-> p] :
             p \in Percentages}

\* the account a device is registered to
DeviceAccount(d) == ((d - 1) % NumAccounts) + 1

\* the beneficiary of a bundle or of a cancel request: None or a name
Beneficiaries == {"None", "b"}

\* hex digest of SHA256 over the JSON dump of the bundle without id,
\* created_at, hash and the mutable attributes, followed by the nonce; the
\* digest is taken as injective, so it is the tuple of what is hashed
CreateBundleHash(b, nonce) ==
    <<b.device_id, b.bundle_quantity, b.beneficiary, nonce>>

VerifyBundleLineage(parent, child) ==
    CreateBundleHash(child, parent.hash) = child.hash

MaxOf(S) == CHOOSE m \in S : \A x \in S : x <= m

\* rows of the device, soft-deleted ones included, whatever their status
GetMaxIncludingWithdrawn(bs, d) ==
    LET ends == {bs[i].range_end :
                    i \in {j \in 1..Len(bs) : bs[j].device_id = d}}
    IN  IF ends = {} \/ MaxOf(ends) = 0 THEN NoneVal ELSE MaxOf(ends)

\* max(range_end) over the device's rows whose status is not WITHDRAWN;
\* None when there is no such row or the maximum is 0
GetMaxCertificateIdByDeviceId(bs, d) ==
    LET ends == {bs[i].range_end :
                    i \in {j \in 1..Len(bs) :
                              /\ bs[j].device_id = d
                              /\ bs[j].certificate_bundle_status # "WITHDRAWN"}}
    IN  IF ends = {} \/ MaxOf(ends) = 0 THEN NoneVal ELSE MaxOf(ends)

\* the meter client maps each reading to one candidate bundle, the first
\* starting at range_start and each next one after the end of the previous
RECURSIVE MapMeteringToCertificates(_, _, _)
MapMeteringToCertificates(energies, range_start, d) ==
    IF energies = <<>> THEN <<>>
    ELSE LET c == [device_id |-> d,
                   account_id |-> DeviceAccount(d),
                   range_start |-> range_start,
                   range_end |-> range_start + Head(energies) - 1,
                   bundle_quantity |-> Head(energies),
                   certificate_bundle_status |-> "ACTIVE",
                   is_deleted |-> FALSE,
                   beneficiary |-> "None",
                   hash |-> <<>>,
                   parent |-> 0]
         IN  <<c>> \o MapMeteringToCertificates(Tail(energies), c.range_end + 1, d)

ValidateGranularCertificateBundle(c, max_certificate_id) ==
    /\ c.bundle_quantity * 10 < DeviceMaxWh * CapacityMarginTenths
    /\ c.bundle_quantity = c.range_end - c.range_start + 1
    /\ c.range_start = max_certificate_id + 1

\* the validation loop of issuance: candidate k is validated against the
\* greatest range end of the candidates validated before it, the first
\* against the device's maximum
ValidCertificates(certs, device_max_certificate_id) ==
    \A k \in 1..Len(certs) :
        ValidateGranularCertificateBundle(
            certs[k],
            IF k = 1 THEN device_max_certificate_id
            ELSE MaxOf({certs[j].range_end : j \in 1..(k - 1)}))

GetCertificateBundlesById(bs, ids) == {i \in ids : i \in 1..Len(bs)}

SplitRaises(b, size_to_split) ==
    size_to_split = 0 \/ size_to_split >= b.bundle_quantity

\* the parent becomes BUNDLE_SPLIT and soft-deleted; the children are copies
\* of the parent as it was, with new quantities and ranges
SplitCertificateBundle(bs, i, size_to_split) ==
    LET b == bs[i]
        sized_1 == [b EXCEPT !.bundle_quantity = size_to_split,
                             !.range_end = b.range_start + size_to_split,
                             !.parent = i]
        child_1 == [sized_1 EXCEPT !.hash = CreateBundleHash(sized_1, b.hash)]
        sized_2 == [b EXCEPT !.bundle_quantity = b.bundle_quantity - size_to_split,
                             !.range_start = child_1.range_end + 1,
                             !.parent = i]
        child_2 == [sized_2 EXCEPT !.hash = CreateBundleHash(sized_2, b.hash)]
    IN  [bs EXCEPT ![i].certificate_bundle_status = "BUNDLE_SPLIT",
                   ![i].is_deleted = TRUE] \o <<child_1, child_2>>

\* an event of the event stream
Event(type, entity_name, entity_id) ==
    [event_type |-> type, entity_name |-> entity_name, entity_id |-> entity_id]

\* the events of a split of row i: the parent's delete appends a DELETE
\* event, each child's create a CREATE event
SplitEvents(bs, i) ==
    <<Event("DELETE", "GranularCertificateBundle", i),
      Event("CREATE", "GranularCertificateBundle", Len(bs) + 1),
      Event("CREATE", "GranularCertificateBundle", Len(bs) + 2)>>

\* int(percentage * bundle_quantity), or the requested quantity
SizeToSplit(b, sel) ==
    IF sel.certificate_quantity # NoneVal THEN sel.certificate_quantity
    ELSE (sel.certificate_bundle_percentage * b.bundle_quantity) \div 100

\* the loop over the queried bundles: a bundle no larger than the requested
\* quantity is taken whole, any other is split and its first child taken.
\* A split that raises ends the loop; the splits before it stay committed.
RECURSIVE ApplyLoop(_, _, _, _, _)
ApplyLoop(bs, ids, sel, out, stream) ==
    IF ids = <<>> THEN [bs |-> bs, out |-> out, raised |-> FALSE, stream |-> stream]
    ELSE LET i == Head(ids)
             b == bs[i]
         IN  IF /\ sel.certificate_quantity # NoneVal
                /\ b.bundle_quantity <= sel.certificate_quantity
             THEN ApplyLoop(bs, Tail(ids), sel, out \cup {i}, stream)
             ELSE IF SplitRaises(b, SizeToSplit(b, sel))
                  THEN [bs |-> bs, out |-> out, raised |-> TRUE, stream |-> stream]
                  ELSE ApplyLoop(SplitCertificateBundle(bs, i, SizeToSplit(b, sel)),
                                 Tail(ids), sel, out \cup {Len(bs) + 1},
                                 stream \o SplitEvents(bs, i))

ApplyBundleQuantityOrPercentage(bs, found, sel) ==
    IF /\ sel.certificate_quantity = NoneVal
       /\ sel.certificate_bundle_percentage = NoneVal
    THEN [bs |-> bs, out |-> found, raised |-> FALSE, stream |-> <<>>]
    ELSE ApplyLoop(bs, AscendingSeq(found), sel, {}, <<>>)

\* the status the action gives to the selected bundles
TargetStatus(type) ==
    CASE type = "cancel" -> "CANCELLED"
      [] type = "claim" -> "CLAIMED"
      [] type = "withdraw" -> "WITHDRAWN"
      [] type = "lock" -> "LOCKED"
      [] type = "reserve" -> "RESERVED"

\* issue_certificates_by_device_in_date_range, for a period after the
\* device's last issued interval and with the readings the meter returns
IssueCertificates(d, energies) ==
    /\ \E device_max_certificate_id \in {GetMaxCertificateIdByDeviceId(bundles, d)} :
          LET certificate_bundle_id_range_start ==
                  IF device_max_certificate_id = NoneVal THEN 1
                  ELSE device_max_certificate_id + 1
          IN  \E certificates \in
                     {MapMeteringToCertificates(
                          energies, certificate_bundle_id_range_start, d)} :
                 /\ Len(bundles) + Len(certificates) <= MaxBundles
                 /\ ValidCertificates(certificates,
                                      IF device_max_certificate_id = NoneVal THEN 0
                                      ELSE device_max_certificate_id)
                 /\ bundles' = bundles \o
                        [k \in 1..Len(certificates) |->
                            [certificates[k] EXCEPT
                                !.hash = CreateBundleHash(certificates[k], <<>>)]]
    /\ UNCHANGED <<actions, links, pending, cqrsVars, accVars, memVars>>

NoError == ""

\* transfer_certificates' checks before it queries the bundles: the target
\* account exists and a link that is not deleted whitelists the source
AdmissionErrorNoWhitelist(wl, req) ==
    IF req.action_type = "transfer" /\ req.target_id \notin Accounts
    THEN "Target account does not exist"
    ELSE NoError

AdmissionError(wl, req) ==
    IF req.action_type # "transfer" THEN NoError
    ELSE IF req.target_id \notin Accounts
         THEN "Target account does not exist"
         ELSE IF wl[<<req.target_id, req.source_id>>] # "live"
              THEN "Target account has not whitelisted the source account"
              ELSE NoError

TransferStatusAny(statuses) == NoError

TransferStatusError(statuses) ==
    IF \E st \in statuses : st # "ACTIVE"
    THEN "Can only transfer active certificates"
    ELSE NoError

CancelStatusError(statuses) ==
    IF \E st \in statuses : st \notin {"ACTIVE", "RESERVED"}
    THEN "Certificates must be in ACTIVE or RESERVED status to cancel"
    ELSE NoError

ClaimStatusAny(statuses) == NoError

ClaimStatusError(statuses) ==
    IF \E st \in statuses : st # "CANCELLED"
    THEN "Can only claim cancelled certificates"
    ELSE NoError

\* the checks of an action function on the bundles it has queried by id
QueryError(bs, req) ==
    LET found == GetCertificateBundlesById(bs, req.ids)
        statuses == {bs[i].certificate_bundle_status : i \in found}
    IN  IF found = {} THEN "No certificates found"
        ELSE CASE req.action_type = "transfer" -> TransferStatusError(statuses)
               [] req.action_type = "cancel" -> CancelStatusError(statuses)
               [] req.action_type = "claim" -> ClaimStatusError(statuses)
               [] OTHER -> NoError

\* the update an action function applies to a bundle it has selected
UpdatedRow(b, req) ==
    CASE req.action_type = "transfer" -> [b EXCEPT !.account_id = req.target_id]
      [] req.action_type = "cancel" ->
            [b EXCEPT !.certificate_bundle_status = "CANCELLED",
                      !.beneficiary = req.beneficiary]
      [] OTHER ->
            [b EXCEPT !.certificate_bundle_status = TargetStatus(req.action_type)]

\* an action function from its query on: the status checks, the selector
\* with its splits, the update of every selected bundle, and the action row
\* that process_certificate_bundle_action writes once the function has
\* returned.  stream lists the events the coordinator calls append, three
\* per split, one per update and one for the action row, and events counts
\* them.
QueryAndApply(bs, acts, req) ==
    IF QueryError(bs, req) # NoError
    THEN [bs |-> bs, actions |-> acts, error |-> QueryError(bs, req),
          events |-> 0, stream |-> <<>>]
    ELSE LET r == ApplyBundleQuantityOrPercentage(
                      bs, GetCertificateBundlesById(bs, req.ids), req.sel)
             updated == AscendingSeq(r.out)
             stream == r.stream
                 \o [k \in 1..Len(updated) |->
                        Event("UPDATE", "GranularCertificateBundle", updated[k])]
                 \o <<Event("CREATE", "GranularCertificateAction", Len(acts) + 1)>>
         IN  IF r.raised
             THEN [bs |-> r.bs, actions |-> acts,
                   error |-> "The size to split is not valid",
                   events |-> Len(r.stream), stream |-> r.stream]
             ELSE [bs |-> [i \in 1..Len(r.bs) |->
                              IF i \in r.out THEN UpdatedRow(r.bs[i], req)
                              ELSE r.bs[i]],
                   actions |-> Append(acts, [action_type |-> req.action_type]),
                   error |-> NoError,
                   events |-> Len(stream), stream |-> stream]

\* what a call of process_certificate_bundle_action makes of the tables, and
\* the error it raises
ProcessOutcome(bs, acts, wl, req) ==
    IF AdmissionError(wl, req) # NoError
    THEN [bs |-> bs, actions |-> acts, error |-> AdmissionError(wl, req),
          events |-> 0, stream |-> <<>>]
    ELSE QueryAndApply(bs, acts, req)

\* a call that changes a table; one that raises before any write leaves no
\* trace in the state
ProcessCertificateBundleAction(req) ==
    /\ \E o \in {ProcessOutcome(bundles, actions, links, req)} :
          /\ o.bs # bundles \/ o.actions # actions
          /\ Len(o.bs) <= MaxBundles
          /\ Len(o.actions) <= MaxActions
          /\ bundles' = o.bs
          /\ actions' = o.actions
    /\ UNCHANGED <<links, pending, cqrsVars, accVars, memVars>>

EnergySeqs ==
    UNION {[1..n -> 1..(DeviceMaxWh + 1)] : n \in 1..MaxBatch}

IdLists == {S \in SUBSET BundleIds : S # {} /\ Cardinality(S) <= 2}

\* the requests of one action type; only a transfer reads source_id and
\* target_id, only a cancel reads beneficiary
Requests(type) ==
    {[action_type |-> type, source_id |-> src, target_id |-> tgt, ids |-> ids,
      sel |-> sel, beneficiary |-> ben] :
        src \in (IF type = "transfer" THEN Accounts ELSE {1}),
        tgt \in (IF type = "transfer" THEN 1..(NumAccounts + 1) ELSE {NoneVal}),
        ids \in IdLists,
        sel \in Selectors,
        ben \in (IF type = "cancel" THEN Beneficiaries ELSE {"None"})}

TransferCertificates(req) ==
    /\ req.action_type = "transfer"
    /\ ProcessCertificateBundleAction(req)

CancelCertificates(req) ==
    /\ req.action_type = "cancel"
    /\ ProcessCertificateBundleAction(req)

ClaimCertificates(req) ==
    /\ req.action_type = "claim"
    /\ ProcessCertificateBundleAction(req)

WithdrawCertificates(req) ==
    /\ req.action_type = "withdraw"
    /\ ProcessCertificateBundleAction(req)

LockCertificates(req) ==
    /\ req.action_type = "lock"
    /\ ProcessCertificateBundleAction(req)

ReserveCertificates(req) ==
    /\ req.action_type = "reserve"
    /\ ProcessCertificateBundleAction(req)

\* validate_and_apply_account_whitelist_update with one account to add: a
\* link of the pair, deleted or not, makes the request fail
AddToWhitelist(account, account_id_to_add) ==
    /\ account_id_to_add # account
    /\ links[<<account, account_id_to_add>>] = "none"
    /\ links' = [links EXCEPT ![<<account, account_id_to_add>>] = "live"]
    /\ UNCHANGED <<bundles, actions, pending, cqrsVars, accVars, memVars>>

\* ... with one account to remove: its link that is not deleted is soft-deleted
RemoveFromWhitelist(account, account_id_to_remove) ==
    /\ links[<<account, account_id_to_remove>>] = "live"
    /\ links' = [links EXCEPT ![<<account, account_id_to_remove>>] = "deleted"]
    /\ UNCHANGED <<bundles, actions, pending, cqrsVars, accVars, memVars>>

\* the ledger of one account structure: issuance and the lifecycle actions
\* that leave a bundle with its owner
Next ==
    \/ \E d \in Devices, energies \in EnergySeqs : IssueCertificates(d, energies)
    \/ \E req \in Requests("cancel") : CancelCertificates(req)
    \/ \E req \in Requests("claim") : ClaimCertificates(req)
    \/ \E req \in Requests("withdraw") : WithdrawCertificates(req)
    \/ \E req \in Requests("lock") : LockCertificates(req)
    \/ \E req \in Requests("reserve") : ReserveCertificates(req)

\* the transfers between accounts: issuance, the whitelist updates, the
\* transfers, and the locks that take bundles out of the ACTIVE status
NextTrade ==
    \/ \E d \in Devices, energies \in EnergySeqs : IssueCertificates(d, energies)
    \/ \E req \in Requests("transfer") : TransferCertificates(req)
    \/ \E req \in Requests("lock") : LockCertificates(req)
    \/ \E t, a \in Accounts : AddToWhitelist(t, a)
    \/ \E t, a \in Accounts : RemoveFromWhitelist(t, a)

SpecTrade == InitAll /\ [][NextTrade]_vars

Spec == InitAll /\ [][Next]_vars

(***************************************************************************)
(* split_certificate_bundle on its own: one issued bundle, split and       *)
(* split again                                                             *)
(***************************************************************************)

MaxSplitQuantity == 5   \* quantity of the issued bundle
MaxSplitRows == 5       \* rows of the bundle table: two splits

InitSplit ==
    /\ InitCQRS
    /\ InitMemory
    /\ actions = <<>>
    /\ links = [p \in Accounts \X Accounts |-> "none"]
    /\ pending = [r \in Reqs |-> NoPending]
    /\ account_user_ids = [a \in Accounts |-> CreatedUserIds(a)]
    /\ user_account_links = {<<u, a>> \in Users \X Accounts : u \in CreatedUserIds(a)}
    /\ \E range_start \in 0..1, energy \in 2..MaxSplitQuantity :
          LET c == MapMeteringToCertificates(<<energy>>, range_start, 1)[1]
          IN  bundles = <<[c EXCEPT !.hash = CreateBundleHash(c, <<>>)]>>

\* one call of split_certificate_bundle that returns
Split(i, size_to_split) ==
    /\ i \in 1..Len(bundles)
    /\ ~SplitRaises(bundles[i], size_to_split)
    /\ Len(bundles) + 2 <= MaxSplitRows
    /\ bundles' = SplitCertificateBundle(bundles, i, size_to_split)
    /\ UNCHANGED <<actions, links, pending, cqrsVars, accVars, memVars>>

NextSplit ==
    \E i \in 1..MaxSplitRows, size_to_split \in 0..MaxSplitQuantity :
        Split(i, size_to_split)

SpecSplit == InitSplit /\ [][NextSplit]_vars


(***************************************************************************)
(* Requests in flight together: an issuance between its read of the        *)
(* device's max certificate id and its write, a transfer between its       *)
(* whitelist check and its updates, and the whitelist updates of other     *)
(* requests in between                                                     *)
(***************************************************************************)

\* lines 313-329: the max id read from the read session, and the
\* certificates mapped from it
IssueRead(r, d, energies) ==
    /\ pending[r] = NoPending
    /\ \E device_max_certificate_id \in {GetMaxCertificateIdByDeviceId(bundles, d)} :
          pending' = [pending EXCEPT ![r] =
              [op |-> "issue",
               device_max_certificate_id |-> device_max_certificate_id,
               certificates |->
                   MapMeteringToCertificates(
                       energies,
                       IF device_max_certificate_id = NoneVal THEN 1
                       ELSE device_max_certificate_id + 1,
                       d)]]
    /\ UNCHANGED <<bundles, actions, links, cqrsVars, accVars, memVars>>

\* lines 338-376: the validation against the max id that was read, and the
\* write; a certificate that is not valid raises and nothing is written
IssueCommit(r) ==
    /\ pending[r].op = "issue"
    /\ \E certificates \in {pending[r].certificates} :
          /\ Len(bundles) + Len(certificates) <= MaxBundles
          /\ bundles' =
                IF ValidCertificates(
                       certificates,
                       IF pending[r].device_max_certificate_id = NoneVal THEN 0
                       ELSE pending[r].device_max_certificate_id)
                THEN bundles \o
                        [k \in 1..Len(certificates) |->
                            [certificates[k] EXCEPT
                                !.hash = CreateBundleHash(certificates[k], <<>>)]]
                ELSE bundles
    /\ pending' = [pending EXCEPT ![r] = NoPending]
    /\ UNCHANGED <<actions, links, cqrsVars, accVars, memVars>>

\* lines 754-773 of transfer_certificates: the target exists and has
\* whitelisted the source; a request that fails here leaves nothing behind
TransferCheck(r, req) ==
    /\ pending[r] = NoPending
    /\ AdmissionError(links, req) = NoError
    /\ pending' = [pending EXCEPT ![r] = [op |-> "transfer", req |-> req]]
    /\ UNCHANGED <<bundles, actions, links, cqrsVars, accVars, memVars>>

\* lines 775-809 and the action row: the query, the status check, the
\* selector and the updates of the owner
TransferCommit(r) ==
    /\ pending[r].op = "transfer"
    /\ \E o \in {QueryAndApply(bundles, actions, pending[r].req)} :
          /\ Len(o.bs) <= MaxBundles
          /\ Len(o.actions) <= MaxActions
          /\ bundles' = o.bs
          /\ actions' = o.actions
    /\ pending' = [pending EXCEPT ![r] = NoPending]
    /\ UNCHANGED <<links, cqrsVars, accVars, memVars>>

\* with transfers in flight, issuance is for one hour of metering and a
\* transfer is of one whole bundle
HourlyEnergySeqs == {energies \in EnergySeqs : Len(energies) = 1}

WholeBundleTransfers ==
    {req \in Requests("transfer") :
        /\ Cardinality(req.ids) = 1
        /\ req.sel.certificate_quantity = NoneVal
        /\ req.sel.certificate_bundle_percentage = NoneVal}

\* issuance calls in flight together
NextConcIssue ==
    \/ \E r \in Reqs, d \in Devices, energies \in EnergySeqs :
          IssueRead(r, d, energies)
    \/ \E r \in Reqs : IssueCommit(r)

SpecConcIssue == InitAll /\ [][NextConcIssue]_vars

\* transfers in flight together with each other and with whitelist updates
NextConcTransfer ==
    \/ \E d \in Devices, energies \in HourlyEnergySeqs :
          IssueCertificates(d, energies)
    \/ \E r \in Reqs, req \in WholeBundleTransfers : TransferCheck(r, req)
    \/ \E r \in Reqs : TransferCommit(r)
    \/ \E t, a \in Accounts : AddToWhitelist(t, a)
    \/ \E t, a \in Accounts : RemoveFromWhitelist(t, a)

SpecConcTransfer == InitAll /\ [][NextConcTransfer]_vars

(***************************************************************************)
(* Part IV: the routes of gc_registry/certificate/routes.py and            *)
(* gc_registry/account/routes.py: the role and account checks of a route   *)
(* in front of the handler it calls                                        *)
(***************************************************************************)

\* validate_user_role
ValidateUserRoleRaises(user, required_role) == UserRole(user) < required_role

\* validate_user_access: the user is not among the account's user_ids
ValidateUserAccessRaises(aui, user, account_id) == user \notin aui[account_id]

\* the role a certificate route asks for
RequiredRole(type) == IF type = "withdraw" THEN ADMIN ELSE TRADING_USER

RouteErrorNoRole(aui, user, req) ==
    IF /\ req.action_type # "withdraw"
       /\ ValidateUserAccessRaises(aui, user, req.source_id)
    THEN "User does not have access to the specified source account"
    ELSE NoError

\* the 401 of a certificate route: the role check of every route, and the
\* access check on source_id of every route but /withdraw
RouteError(aui, user, req) ==
    IF ValidateUserRoleRaises(user, RequiredRole(req.action_type))
    THEN "User does not have the required role"
    ELSE IF /\ req.action_type # "withdraw"
            /\ ValidateUserAccessRaises(aui, user, req.source_id)
         THEN "User does not have access to the specified source account"
         ELSE NoError

\* the name of the user, which /cancel takes as the beneficiary when the
\* request names none
UserName(user) == "name"

\* the request as the route hands it to process_certificate_bundle_action
RoutedRequest(user, req) ==
    IF req.action_type = "cancel" /\ req.beneficiary = "None"
    THEN [req EXCEPT !.beneficiary = UserName(user)]
    ELSE req

\* what a call of a certificate route makes of the tables
RouteOutcome(bs, acts, wl, aui, user, req) ==
    IF RouteError(aui, user, req) # NoError
    THEN [bs |-> bs, actions |-> acts, error |-> RouteError(aui, user, req),
          events |-> 0, stream |-> <<>>]
    ELSE ProcessOutcome(bs, acts, wl, RoutedRequest(user, req))

\* the requests a route receives: source_id is any account; one bundle id
RouteRequests(type) ==
    {[req EXCEPT !.source_id = a] :
        req \in {r \in Requests(type) : Cardinality(r.ids) = 1}, a \in Accounts}

\* a call of a certificate route that changes a table
CertificateRoute(user, req) ==
    /\ RouteError(account_user_ids, user, req) = NoError
    /\ ProcessCertificateBundleAction(RoutedRequest(user, req))

certificate_bundle_transfer(user, req) ==
    /\ req.action_type = "transfer"
    /\ CertificateRoute(user, req)

certificate_bundle_cancellation(user, req) ==
    /\ req.action_type = "cancel"
    /\ CertificateRoute(user, req)

certificate_bundle_claim(user, req) ==
    /\ req.action_type = "claim"
    /\ CertificateRoute(user, req)

certificate_bundle_withdraw(user, req) ==
    /\ req.action_type = "withdraw"
    /\ CertificateRoute(user, req)

certificate_bundle_reserve(user, req) ==
    /\ req.action_type = "reserve"
    /\ CertificateRoute(user, req)

\* PATCH /account/update/{account_id} with user_ids in the request:
\* update_account_user_links creates the links of the users that are new
\* and DELETEs the link rows of the users that are no longer listed (it
\* returns at once on an empty list and raises when the account has no
\* link), then account.update writes the user_ids column
update_account(user, account_id, user_ids) ==
    /\ ~ValidateUserRoleRaises(user, TRADING_USER)
    /\ ~ValidateUserAccessRaises(account_user_ids, user, account_id)
    /\ \E existing_users \in {{u \in Users : <<u, account_id>> \in user_account_links}} :
          /\ user_ids # {} => existing_users # {}
          /\ user_account_links' =
                IF user_ids = {} THEN user_account_links
                ELSE (user_account_links \cup {<<u, account_id>> : u \in user_ids})
                        \ {<<u, account_id>> : u \in existing_users \ user_ids}
    /\ account_user_ids' = [account_user_ids EXCEPT ![account_id] = user_ids]
    /\ UNCHANGED <<bundles, actions, links, pending, cqrsVars, memVars>>

\* the certificate routes, with issuance and the whitelist in the background
NextRoutes ==
    \/ \E energies \in HourlyEnergySeqs : IssueCertificates(1, energies)
    \/ \E t, a \in Accounts : AddToWhitelist(t, a)
    \/ \E u \in Users, req \in RouteRequests("transfer") :
          certificate_bundle_transfer(u, req)
    \/ \E u \in Users, req \in RouteRequests("cancel") :
          certificate_bundle_cancellation(u, req)
    \/ \E u \in Users, req \in RouteRequests("claim") :
          certificate_bundle_claim(u, req)
    \/ \E u \in Users, req \in RouteRequests("withdraw") :
          certificate_bundle_withdraw(u, req)
    \/ \E u \in Users, req \in RouteRequests("reserve") :
          certificate_bundle_reserve(u, req)

\* the accounts after the trading user has taken the administrator off the
\* list of account 1: update_account(2, 1, Users \ {1})
InitRoutes ==
    /\ InitCQRS
    /\ InitMemory
    /\ bundles = <<>>
    /\ actions = <<>>
    /\ links = [p \in Accounts \X Accounts |-> "none"]
    /\ pending = [r \in Reqs |-> NoPending]
    /\ account_user_ids =
          [a \in Accounts |-> IF a = 1 THEN Users \ {1} ELSE CreatedUserIds(a)]
    /\ user_account_links =
          {<<u, a>> \in Users \X Accounts : u \in CreatedUserIds(a)} \ {<<1, 1>>}

SpecRoutes == InitRoutes /\ [][NextRoutes]_vars

\* the accounts and their links
NextAccounts ==
    \/ \E u \in Users, a \in Accounts, user_ids \in SUBSET Users :
          update_account(u, a, user_ids)
    \/ \E t, a \in Accounts : AddToWhitelist(t, a)
    \/ \E t, a \in Accounts : RemoveFromWhitelist(t, a)

SpecAccounts == InitAll /\ [][NextAccounts]_vars

(***************************************************************************)
(* Properties of the ledger                                                *)
(***************************************************************************)

RowsOf(bs, d) == {i \in 1..Len(bs) : bs[i].device_id = d}

\* a row written by issuance (a child of a split names its parent)
Issued(b) == b.parent = 0

Disjoint(a, b) == a.range_end < b.range_start \/ b.range_end < a.range_start

\* C8: every bundle in the store, however it was created, has
\* bundle_quantity = range_end - range_start + 1.
C8_QuantityMatchesRange ==
    \A i \in 1..Len(bundles) :
        bundles[i].bundle_quantity =
            bundles[i].range_end - bundles[i].range_start + 1

\* C9: any two distinct bundles of the same device that are not soft-deleted
\* have disjoint [range_start, range_end] intervals, in every reachable state.
C9_RangesDisjointPerDevice ==
    \A i, j \in 1..Len(bundles) :
        (/\ i # j
         /\ bundles[i].device_id = bundles[j].device_id
         /\ ~bundles[i].is_deleted
         /\ ~bundles[j].is_deleted)
        => Disjoint(bundles[i], bundles[j])

\* the range ends issuance has to continue for row i of the new table: those
\* of the device's rows that existed before the step with a status other than
\* WITHDRAWN, and those of the rows the same step wrote before row i
EndsBefore(i) ==
    {bundles[j].range_end :
        j \in {k \in RowsOf(bundles, bundles'[i].device_id) :
                  bundles[k].certificate_bundle_status # "WITHDRAWN"}}
    \cup {bundles'[j].range_end :
             j \in {k \in (Len(bundles) + 1)..(i - 1) :
                       bundles'[k].device_id = bundles'[i].device_id}}

\* C10: every bundle written by issuance starts one past the greatest range
\* end among the device's existing bundles that are not WITHDRAWN and the
\* bundles written earlier in the same batch (at 1 when there is none).
C10_IssuanceContinuesSequence ==
    [][\A i \in (Len(bundles) + 1)..Len(bundles') :
          Issued(bundles'[i]) =>
              bundles'[i].range_start =
                  1 + (IF EndsBefore(i) = {} THEN 0 ELSE MaxOf(EndsBefore(i)))]_vars

\* an issued bundle that continues an earlier bundle of its device and starts
\* at or below the end of an earlier, withdrawn bundle of that device
C10_Witness ==
    \E i, j, k \in 1..Len(bundles) :
        /\ j < i /\ k < i /\ j # k
        /\ Issued(bundles[i])
        /\ bundles[j].device_id = bundles[i].device_id
        /\ bundles[k].device_id = bundles[i].device_id
        /\ bundles[j].certificate_bundle_status = "WITHDRAWN"
        /\ bundles[j].range_end >= bundles[i].range_start
        /\ bundles[k].certificate_bundle_status # "WITHDRAWN"
        /\ bundles[k].range_end + 1 = bundles[i].range_start

\* a step in which a split has written its two children
SplitHappens ==
    /\ Len(bundles') = Len(bundles) + 2
    /\ bundles'[Len(bundles) + 1].parent # 0

SplitParent == bundles[bundles'[Len(bundles) + 1].parent]

SplitChild1 == bundles'[Len(bundles) + 1]

SplitChild2 == bundles'[Len(bundles) + 2]

\* C12: a split of a parent [s, e] of quantity Q at k, 0 < k < Q, yields
\* child 1 with range [s, s + k - 1] and quantity k and child 2 with range
\* [s + k, e] and quantity Q - k.
C12_SplitAtK ==
    [][SplitHappens =>
          LET k == SplitChild1.bundle_quantity
          IN  /\ SplitChild1.range_start = SplitParent.range_start
              /\ SplitChild1.range_end = SplitParent.range_start + k - 1
              /\ SplitChild2.range_start = SplitParent.range_start + k
              /\ SplitChild2.range_end = SplitParent.range_end
              /\ SplitChild2.bundle_quantity = SplitParent.bundle_quantity - k]_vars

RangeOf(b) == b.range_start..b.range_end

\* C13: the children of every split are adjacent and cover exactly the
\* parent's range: child 1 starts where the parent starts, child 2 starts
\* right after child 1 ends and ends where the parent ends, and the union of
\* the two ranges is the parent's range.
C13_ChildrenCoverParent ==
    [][SplitHappens =>
          /\ SplitChild1.range_start = SplitParent.range_start
          /\ SplitChild2.range_start = SplitChild1.range_end + 1
          /\ SplitChild2.range_end = SplitParent.range_end
          /\ RangeOf(SplitChild1) \cup RangeOf(SplitChild2) = RangeOf(SplitParent)]_vars


\* C14: for every child c of a split parent p, the hash recomputed from c's
\* non-mutable fields and p's hash equals c.hash, also after any later
\* lifecycle action on c.
C14_LineageVerifies ==
    \A i \in 1..Len(bundles) :
        bundles[i].parent # 0 =>
            VerifyBundleLineage(bundles[bundles[i].parent], bundles[i])

AllowedTransitions ==
    ({"ACTIVE"} \X {"CANCELLED", "RESERVED", "LOCKED", "WITHDRAWN", "EXPIRED",
                    "BUNDLE_SPLIT"})
        \cup {<<"CANCELLED", "CLAIMED">>, <<"RESERVED", "CANCELLED">>}

\* C18: every change of a bundle's status is one of the allowed transitions:
\* ACTIVE to CANCELLED, RESERVED, LOCKED, WITHDRAWN, EXPIRED or BUNDLE_SPLIT,
\* CANCELLED to CLAIMED, RESERVED to CANCELLED.
C18_AllowedTransitions ==
    [][\A i \in 1..Len(bundles) :
          bundles'[i].certificate_bundle_status # bundles[i].certificate_bundle_status
              => <<bundles[i].certificate_bundle_status,
                   bundles'[i].certificate_bundle_status>> \in AllowedTransitions]_vars

\* C19: WITHDRAWN and BUNDLE_SPLIT are terminal: no action and no split
\* changes the status of a bundle that has one of them.
C19_TerminalStatuses ==
    [][\A i \in 1..Len(bundles) :
          bundles[i].certificate_bundle_status \in {"WITHDRAWN", "BUNDLE_SPLIT"}
              => bundles'[i].certificate_bundle_status
                    = bundles[i].certificate_bundle_status]_vars

\* the statuses of the bundles a request names
TargetedStatuses(req) ==
    {bundles[i].certificate_bundle_status :
        i \in GetCertificateBundlesById(bundles, req.ids)}

\* the rows of bs that do not stand as they are in the bundle table
ChangedRows(bs) ==
    {i \in 1..Len(bs) : i > Len(bundles) \/ bs[i] # bundles[i]}

\* C20: a claim sets a bundle to CLAIMED only if every bundle it targets is
\* CANCELLED; when some targeted bundle is not, the claim fails with the
\* error "Can only claim cancelled certificates" and changes no bundle.
C20_ClaimOnlyCancelled ==
    \A req \in Requests("claim") :
        LET o == ProcessOutcome(bundles, actions, links, req)
        IN  /\ (\E i \in ChangedRows(o.bs) :
                    o.bs[i].certificate_bundle_status = "CLAIMED")
                  => TargetedStatuses(req) = {"CANCELLED"}
            /\ (TargetedStatuses(req) \ {"CANCELLED"} # {})
                  => /\ o.error = "Can only claim cancelled certificates"
                     /\ o.bs = bundles

\* a claim has set a bundle to CLAIMED, and a claim that names this bundle
\* again is refused
C20_Witness ==
    \E req \in Requests("claim") :
        /\ "CLAIMED" \in TargetedStatuses(req)
        /\ ProcessOutcome(bundles, actions, links, req).error
              = "Can only claim cancelled certificates"

\* no link that is not deleted whitelists the request's source with its target
NoLiveEdge(req) ==
    req.target_id \notin Accounts
        \/ links[<<req.target_id, req.source_id>>] # "live"

\* C16: a transfer request with no whitelist edge from its source to its
\* target that is not deleted fails with an error, mutates no bundle (no
\* split, no change of owner) and appends no event.
C16_NoEdgeNoTransfer ==
    \A req \in Requests("transfer") :
        NoLiveEdge(req) =>
            LET o == ProcessOutcome(bundles, actions, links, req)
            IN  /\ o.error # NoError
                /\ o.bs = bundles
                /\ o.actions = actions
                /\ o.events = 0

\* a transfer of ACTIVE bundles is refused because the link that whitelisted
\* its source has been removed
C16_Witness ==
    \E req \in Requests("transfer") :
        /\ req.target_id \in Accounts
        /\ links[<<req.target_id, req.source_id>>] = "deleted"
        /\ TargetedStatuses(req) = {"ACTIVE"}
        /\ ProcessOutcome(bundles, actions, links, req).error
              = "Target account has not whitelisted the source account"

\* the rows of bs whose owner is not the one the bundle table has for them
\* (for a child of a split: for its parent)
OwnerChanges(bs) ==
    {i \in 1..Len(bs) :
        IF i <= Len(bundles) THEN bs[i].account_id # bundles[i].account_id
        ELSE bs[i].account_id # bs[bs[i].parent].account_id}

\* C17: a transfer changes account_id only if every bundle it targets is
\* ACTIVE and the target account exists; if some targeted bundle is not
\* ACTIVE the transfer fails and no bundle changes owner.
C17_TransferOnlyActive ==
    \A req \in Requests("transfer") :
        LET o == ProcessOutcome(bundles, actions, links, req)
        IN  /\ OwnerChanges(o.bs) # {}
                  => /\ TargetedStatuses(req) = {"ACTIVE"}
                     /\ req.target_id \in Accounts
            /\ (TargetedStatuses(req) \ {"ACTIVE"} # {})
                  => /\ o.error # NoError
                     /\ OwnerChanges(o.bs) = {}

\* a transfer has changed the owner of a bundle, and a whitelisted transfer
\* that names a bundle that is not ACTIVE is refused for its status
C17_Witness ==
    /\ \E i \in 1..Len(bundles) :
          bundles[i].account_id # DeviceAccount(bundles[i].device_id)
    /\ \E req \in Requests("transfer") :
          /\ ~NoLiveEdge(req)
          /\ ProcessOutcome(bundles, actions, links, req).error
                = "Can only transfer active certificates"

\* no two issuance calls in flight for one device hold the same max id
NoSharedMaxRead ==
    \A r1, r2 \in Reqs :
        (r1 # r2 /\ pending[r1].op = "issue" /\ pending[r2].op = "issue"
                 /\ pending[r1].certificates[1].device_id
                        = pending[r2].certificates[1].device_id)
            => pending[r1].device_max_certificate_id
                  # pending[r2].device_max_certificate_id

\* no two issued bundles of one device start at the same certificate id
NoSharedRangeStart ==
    \A i, j \in 1..Len(bundles) :
        (i < j /\ Issued(bundles[i]) /\ Issued(bundles[j])
               /\ bundles[i].device_id = bundles[j].device_id)
            => bundles[i].range_start # bundles[j].range_start

\* C11: two issuance calls for the same device that run together are
\* serialized: they never both read the same max certificate id and never
\* both commit bundles with the same range_start.
C11_IssuanceSerialized == NoSharedMaxRead /\ NoSharedRangeStart

\* a step in which the transfer of request r commits a change of owner
TransferCommitted(r) ==
    /\ pending[r].op = "transfer"
    /\ pending'[r] = NoPending
    /\ OwnerChanges(bundles') # {}

\* C15: whenever a transfer commits its change of owner, a whitelist edge
\* from its source to its target that is not deleted exists at that moment,
\* also when the edge is removed while the transfer runs.
C15_EdgeAtCommit ==
    [][\A r \in Reqs :
          TransferCommitted(r) =>
              links[<<pending[r].req.target_id, pending[r].req.source_id>>]
                  = "live"]_vars

\* the requests of the lifecycle actions of the ledger
LedgerRequests ==
    UNION {Requests(type) : type \in {"cancel", "claim", "withdraw", "lock", "reserve"}}

IsPartial(sel) ==
    sel.certificate_quantity # NoneVal \/ sel.certificate_bundle_percentage # NoneVal

\* the quantity of bundle b exceeds what the selector asks for
ExceedsSelector(b, sel) ==
    IF sel.certificate_quantity # NoneVal
    THEN b.bundle_quantity > sel.certificate_quantity
    ELSE 100 * b.bundle_quantity > sel.certificate_bundle_percentage * b.bundle_quantity

\* the children that the rows bs hold for row i of the bundle table
NewChildren(bs, i) ==
    {j \in (Len(bundles) + 1)..Len(bs) : bs[j].parent = i}

\* C21: for an action with a partial selector that selects at least one
\* certificate of every bundle it targets, a targeted bundle whose quantity
\* exceeds the selector is split into a selector-sized child 1 and a
\* remainder child 2 and the action is applied to child 1 only, child 2
\* keeping the parent's owner and status; a bundle whose quantity is at most
\* the selector is acted on whole, without a split.  This holds for the
\* quantity and for the percentage selector.
C21_PartialSelection ==
    \A req \in LedgerRequests :
        LET found == GetCertificateBundlesById(bundles, req.ids)
            o == ProcessOutcome(bundles, actions, links, req)
        IN  (/\ IsPartial(req.sel)
             /\ QueryError(bundles, req) = NoError
             /\ \A i \in found : SizeToSplit(bundles[i], req.sel) >= 1)
            => /\ o.error = NoError
               /\ \A i \in found :
                     IF ExceedsSelector(bundles[i], req.sel)
                     THEN /\ o.bs[i].certificate_bundle_status = "BUNDLE_SPLIT"
                          /\ \E j, k \in NewChildren(o.bs, i) :
                                /\ NewChildren(o.bs, i) = {j, k}
                                /\ j < k
                                /\ o.bs[j].bundle_quantity
                                      = SizeToSplit(bundles[i], req.sel)
                                /\ o.bs[j].certificate_bundle_status
                                      = UpdatedRow(bundles[i], req).certificate_bundle_status
                                /\ o.bs[k].bundle_quantity
                                      = bundles[i].bundle_quantity
                                            - SizeToSplit(bundles[i], req.sel)
                                /\ o.bs[k].certificate_bundle_status
                                      = bundles[i].certificate_bundle_status
                                /\ o.bs[k].account_id = bundles[i].account_id
                     ELSE /\ o.bs[i] = UpdatedRow(bundles[i], req)
                          /\ NewChildren(o.bs, i) = {}

\* C22: an action with certificate_bundle_percentage exactly 1.0 succeeds and
\* has the effect of the same action with no selector: every targeted bundle
\* is acted on whole and nothing is split.
C22_FullPercentageIsWhole ==
    \A req \in LedgerRequests :
        (/\ req.sel.certificate_bundle_percentage = 100
         /\ QueryError(bundles, req) = NoError)
            => ProcessOutcome(bundles, actions, links, req)
                  = ProcessOutcome(
                        bundles, actions, links,
                        [req EXCEPT !.sel.certificate_bundle_percentage = NoneVal])

\* C23: every action request that is processed for bundles of the store,
\* whether it succeeds or fails, leaves exactly one GranularCertificateAction
\* row more in the action table.
C23_EveryActionRecorded ==
    \A req \in LedgerRequests :
        GetCertificateBundlesById(bundles, req.ids) # {}
            => Len(ProcessOutcome(bundles, actions, links, req).actions)
                  = Len(actions) + 1

\* the action types that have a route
RouteTypes == {"transfer", "cancel", "claim", "withdraw", "reserve"}

\* the call of the route by user with req changes a table
TakesEffect(user, req) ==
    LET o == RouteOutcome(bundles, actions, links, account_user_ids, user, req)
    IN  o.bs # bundles \/ o.actions # actions

\* C24: no transfer, cancel, claim, lock or reserve takes effect unless the
\* acting user has a role of at least TRADING_USER and is a user of the
\* source account, and no withdraw takes effect unless the acting user has
\* the role ADMIN.
C24_RoleGate ==
    \A type \in RouteTypes : \A req \in RouteRequests(type) : \A user \in Users :
        TakesEffect(user, req) =>
            IF type = "withdraw" THEN UserRole(user) = ADMIN
            ELSE /\ UserRole(user) >= TRADING_USER
                 /\ user \in account_user_ids[req.source_id]

\* the administrator has withdrawn a bundle, and a withdraw that would take
\* effect is refused to a user whose role is below ADMIN
C24_Witness ==
    /\ \E i \in 1..Len(bundles) : bundles[i].certificate_bundle_status = "WITHDRAWN"
    /\ \E req \in RouteRequests("withdraw") : \E user \in Users :
          /\ UserRole(user) = TRADING_USER
          /\ ProcessOutcome(bundles, actions, links, req).error = NoError
          /\ RouteOutcome(bundles, actions, links, account_user_ids, user, req).error
                = "User does not have the required role"

\* the route admits the user with the request
Admitted(user, req) == RouteError(account_user_ids, user, req) = NoError

\* C25: for an action against an account, an actor who is not an
\* administrator is admitted only if the actor is a user of that account,
\* and an ADMIN actor is admitted also when not a user of it: an action of
\* an administrator that the action processor accepts takes effect.
C25_AdminBypass ==
    \A type \in RouteTypes : \A req \in RouteRequests(type) : \A user \in Users :
        /\ (UserRole(user) # ADMIN /\ Admitted(user, req))
              => user \in account_user_ids[req.source_id]
        /\ (/\ UserRole(user) = ADMIN
            /\ ProcessOutcome(bundles, actions, links, RoutedRequest(user, req)).error
                  = NoError)
              => /\ Admitted(user, req)
                 /\ TakesEffect(user, req)

\* the events of a stream that are about bundle row i
BundleEvents(stream, i) ==
    SelectSeq(stream, LAMBDA e : /\ e.entity_name = "GranularCertificateBundle"
                                 /\ e.entity_id = i)

\* the bundle rows a CREATE event of the stream names
CreatedBundles(stream) ==
    {stream[k].entity_id : k \in {j \in 1..Len(stream) :
        /\ stream[j].event_type = "CREATE"
        /\ stream[j].entity_name = "GranularCertificateBundle"}}

\* C26: a partial transfer that splits one bundle appends exactly two CREATE
\* events on bundles, one per child, and one UPDATE event on the parent
\* bundle, and the parent ends BUNDLE_SPLIT and soft-deleted.
C26_SplitTransferEvents ==
    \A req \in Requests("transfer") :
        \A o \in {ProcessOutcome(bundles, actions, links, req)} :
            (o.error = NoError /\ Len(o.bs) = Len(bundles) + 2)
            => LET child1 == Len(bundles) + 1
                   child2 == Len(bundles) + 2
                   parent == o.bs[child1].parent
               IN  /\ CreatedBundles(o.stream) = {child1, child2}
                   /\ Len(SelectSeq(o.stream, LAMBDA e :
                          /\ e.event_type = "CREATE"
                          /\ e.entity_name = "GranularCertificateBundle")) = 2
                   /\ o.bs[parent].certificate_bundle_status = "BUNDLE_SPLIT"
                   /\ o.bs[parent].is_deleted
                   /\ Len(BundleEvents(o.stream, parent)) = 1
                   /\ BundleEvents(o.stream, parent)[1].event_type = "UPDATE"

(***************************************************************************)
(* Part V: issuance over a requested period.  Time is counted in           *)
(* certificate intervals: hour h is the instant h, and a reading of hour   *)
(* h covers h to h + 1.                                                    *)
(***************************************************************************)
MaxHour == 3
Hours == 0..MaxHour

\* max(production_ending_interval) over every row of the device
GetMaxTimestampIncludingWithdrawn(bs, d) ==
    LET ends == {bs[i].production_ending_interval :
                    i \in {j \in 1..Len(bs) : bs[j].device_id = d}}
    IN  IF ends = {} THEN NoneVal ELSE MaxOf(ends)

\* max(production_ending_interval) over the device's rows whose status is
\* not WITHDRAWN; None when there is no such row
GetMaxCertificateTimestampByDeviceId(bs, d) ==
    LET ends == {bs[i].production_ending_interval :
                    i \in {j \in 1..Len(bs) :
                              /\ bs[j].device_id = d
                              /\ bs[j].certificate_bundle_status # "WITHDRAWN"}}
    IN  IF ends = {} THEN NoneVal ELSE MaxOf(ends)

\* the check of the requested period against what the device was issued:
\* the call returns at once when the last issued interval ends at or after
\* to_datetime, and from_datetime moves up to it when it ends after
\* from_datetime
IssuancePeriod(bs, d, from_datetime, to_datetime) ==
    LET max_issued_timestamp == GetMaxCertificateTimestampByDeviceId(bs, d)
    IN  IF max_issued_timestamp # NoneVal /\ max_issued_timestamp >= to_datetime
        THEN [skipped |-> TRUE, from_datetime |-> from_datetime]
        ELSE IF max_issued_timestamp # NoneVal /\ max_issued_timestamp > from_datetime
             THEN [skipped |-> FALSE, from_datetime |-> max_issued_timestamp]
             ELSE [skipped |-> FALSE, from_datetime |-> from_datetime]

\* the meter client's readings of a period: one reading of 2 Wh for each
\* interval that starts in it
GetMeteringByDeviceInDatetimeRange(from_datetime, to_datetime) ==
    [k \in 1..(IF to_datetime > from_datetime THEN to_datetime - from_datetime ELSE 0) |->
        [interval_start_datetime |-> from_datetime + k - 1,
         interval_end_datetime |-> from_datetime + k,
         interval_usage |-> 2]]

\* what issue_certificates_by_device_in_date_range makes of a table: the
\* period it asks the meter for, the table after the batch commit and the
\* events the commit appends
IssueOutcome(bs, d, from_datetime, to_datetime) ==
    LET period == IssuancePeriod(bs, d, from_datetime, to_datetime)
        meter_data == GetMeteringByDeviceInDatetimeRange(
                          period.from_datetime, to_datetime)
        device_max_certificate_id == GetMaxCertificateIdByDeviceId(bs, d)
        certificates == MapMeteringToCertificates(
                            [k \in 1..Len(meter_data) |-> meter_data[k].interval_usage],
                            IF device_max_certificate_id = NoneVal THEN 1
                            ELSE device_max_certificate_id + 1, d)
        created == [k \in 1..Len(certificates) |->
                       [certificates[k] EXCEPT
                           !.hash = CreateBundleHash(certificates[k], <<>>)]
                       @@ [production_starting_interval |->
                               meter_data[k].interval_start_datetime,
                           production_ending_interval |->
                               meter_data[k].interval_end_datetime]]
        none == [bs |-> bs, skipped |-> period.skipped, metered |-> FALSE,
                 from_datetime |-> period.from_datetime, stream |-> <<>>]
    IN  IF period.skipped THEN none
        ELSE IF meter_data = <<>>
                \/ ~ValidCertificates(certificates,
                                      IF device_max_certificate_id = NoneVal THEN 0
                                      ELSE device_max_certificate_id)
             THEN [none EXCEPT !.metered = TRUE]
             ELSE [bs |-> bs \o created, skipped |-> FALSE, metered |-> TRUE,
                   from_datetime |-> period.from_datetime,
                   stream |-> [k \in 1..Len(created) |->
                                  Event("CREATE", "GranularCertificateBundle",
                                        Len(bs) + k)]]

issue_certificates_by_device_in_date_range(d, from_datetime, to_datetime) ==
    /\ \E o \in {IssueOutcome(bundles, d, from_datetime, to_datetime)} :
          /\ o.bs # bundles
          /\ Len(o.bs) <= MaxBundles
          /\ bundles' = o.bs
    /\ UNCHANGED <<actions, links, pending, cqrsVars, accVars, memVars>>

NextIssuance ==
    \/ \E d \in Devices, from_datetime \in Hours, to_datetime \in Hours :
          issue_certificates_by_device_in_date_range(d, from_datetime, to_datetime)
    \/ \E req \in Requests("withdraw") : WithdrawCertificates(req)
    \/ \E req \in Requests("cancel") : CancelCertificates(req)

SpecIssuance == InitAll /\ [][NextIssuance]_vars

\* the end of the last interval issued to device d, over the rows that are
\* not WITHDRAWN
LastIssuedEnds(d) ==
    {bundles[i].production_ending_interval :
        i \in {j \in 1..Len(bundles) :
                  /\ bundles[j].device_id = d
                  /\ bundles[j].certificate_bundle_status # "WITHDRAWN"}}

\* C27: an issuance for a device whose last issued interval, over the
\* bundles that are not WITHDRAWN, ends at or after the requested to creates
\* no bundle and appends no event; otherwise the period asked of the meter
\* starts at the later of the requested from and that end.
C27_IssuanceSkipsIssuedPeriod ==
    \A d \in Devices, from_datetime \in Hours, to_datetime \in Hours :
        \A o \in {IssueOutcome(bundles, d, from_datetime, to_datetime)} :
            LastIssuedEnds(d) # {}
            => LET last_issued_end == MaxOf(LastIssuedEnds(d))
               IN  IF last_issued_end >= to_datetime
                   THEN o.bs = bundles /\ o.stream = <<>> /\ ~o.metered
                   ELSE /\ o.metered
                        /\ o.from_datetime =
                               IF from_datetime >= last_issued_end
                               THEN from_datetime ELSE last_issued_end

\* a device whose latest interval was withdrawn and whose earlier one was
\* not: a request up to the earlier end is skipped, one across it is narrowed
\* and issues
C27_Witness ==
    \E d \in Devices :
        /\ LastIssuedEnds(d) # {}
        /\ GetMaxTimestampIncludingWithdrawn(bundles, d) > MaxOf(LastIssuedEnds(d))
        /\ IssueOutcome(bundles, d, 0, MaxOf(LastIssuedEnds(d))).skipped
        /\ \E to_datetime \in Hours :
              LET o == IssueOutcome(bundles, d, 0, to_datetime)
              IN  /\ MaxOf(LastIssuedEnds(d)) > 0
                  /\ o.from_datetime = MaxOf(LastIssuedEnds(d))
                  /\ Len(o.bs) > Len(bundles)

\* the queries the schema accepts: issuance ids, as device and starting
\* interval pairs, cannot come with a period.  A query without issuance ids
\* has the empty set, one without a status the string "None"
NoIssuanceIds == {}

Queries ==
    {q \in [source_id : Accounts,
            issuance_ids : {NoIssuanceIds} \cup {{<<d, h>>} : d \in Devices, h \in Hours},
            device_id : {NoneVal} \cup Devices,
            certificate_period_start : {NoneVal, 1},
            certificate_period_end : {NoneVal, MaxHour - 1},
            certificate_bundle_status : {"None", "ACTIVE", "WITHDRAWN"}] :
        q.issuance_ids # NoIssuanceIds
        => /\ q.certificate_period_start = NoneVal
           /\ q.certificate_period_end = NoneVal}

\* the rows query_certificate_bundles returns.  The statement starts from
\* the rows of the source account that are not deleted and gains one clause
\* per parameter that is set; issuance_ids, the first parameter of the
\* schema, replaces the statement by one over the issuance ids alone and
\* ends the loop
QueryCertificateBundles(bs, q) ==
    IF q.issuance_ids # NoIssuanceIds
    THEN {i \in 1..Len(bs) :
             <<bs[i].device_id, bs[i].production_starting_interval>> \in q.issuance_ids}
    ELSE {i \in 1..Len(bs) :
             /\ bs[i].account_id = q.source_id
             /\ bs[i].is_deleted = FALSE
             /\ q.device_id # NoneVal => bs[i].device_id = q.device_id
             /\ q.certificate_period_start # NoneVal
                => bs[i].production_starting_interval >= q.certificate_period_start
             /\ q.certificate_period_end # NoneVal
                => bs[i].production_ending_interval <= q.certificate_period_end
             /\ q.certificate_bundle_status # "None"
                => bs[i].certificate_bundle_status = q.certificate_bundle_status}

\* C28: every bundle a bundle query returns belongs to the account of
\* source_id and is not soft-deleted, whatever filters the query carries,
\* issuance_ids included.
C28_QueryStaysInAccount ==
    \A q \in Queries :
        \A i \in QueryCertificateBundles(bundles, q) :
            /\ bundles[i].account_id = q.source_id
            /\ ~bundles[i].is_deleted

\* C30: no operation physically removes a row from the write store: a
\* committed user-account link, whitelist link, bundle or action row is
\* present in every later state, a deletion only sets is_deleted.
C30_NoPhysicalDelete ==
    [][/\ user_account_links \subseteq user_account_links'
       /\ \A p \in Accounts \X Accounts : links[p] # "none" => links'[p] # "none"
       /\ Len(bundles') >= Len(bundles)
       /\ Len(actions') >= Len(actions)]_vars

(***************************************************************************)
(* Part VI: the ledger with the selectors the action schema lets through.  *)
(* certificate_quantity is an int without a constraint; None being coded   *)
(* as -1 here, the negative quantity taken is -2.                          *)
(***************************************************************************)
NegativeQuantity == -2

SignedSelectors ==
    Selectors
    \cup {[certificate_quantity |-> NegativeQuantity,
           certificate_bundle_percentage |-> NoneVal]}

SignedRequests(type) ==
    {[req EXCEPT !.sel = sel] : req \in Requests(type), sel \in SignedSelectors}

NextSigned ==
    \/ \E d \in Devices, energies \in EnergySeqs : IssueCertificates(d, energies)
    \/ \E req \in SignedRequests("cancel") : CancelCertificates(req)
    \/ \E req \in SignedRequests("reserve") : ReserveCertificates(req)

SpecSigned == InitAll /\ [][NextSigned]_vars

\* C37: a split is made only for a size k with 0 < k < the parent's
\* quantity: no bundle has a quantity of 0 or less, and no child of a split
\* is as large as its parent or larger.
C37_SplitSizeInRange ==
    \A i \in 1..Len(bundles) :
        /\ bundles[i].bundle_quantity > 0
        /\ bundles[i].parent # 0
           => bundles[i].bundle_quantity < bundles[bundles[i].parent].bundle_quantity

\* C35: an action submitted with source_id = A changes neither the owner
\* nor the status of a bundle whose account is not A, whatever bundle ids
\* the request lists.
C35_ActionStaysInSourceAccount ==
    \A type \in {"transfer", "cancel", "claim", "reserve"} :
        \A user \in Users, req \in RouteRequests(type) :
            \A o \in {RouteOutcome(bundles, actions, links,
                                   account_user_ids, user, req)} :
                \A i \in 1..Len(bundles) :
                    bundles[i].account_id # req.source_id
                    => /\ o.bs[i].account_id = bundles[i].account_id
                       /\ o.bs[i].certificate_bundle_status
                              = bundles[i].certificate_bundle_status

\* C36: no action and no split is applied to a soft-deleted bundle: a call
\* leaves every soft-deleted row as it was and splits nothing off it.
C36_DeletedBundleUntouched ==
    \A req \in LedgerRequests :
        \A o \in {ProcessOutcome(bundles, actions, links, req)} :
            \A i \in 1..Len(bundles) :
                bundles[i].is_deleted
                => /\ o.bs[i] = bundles[i]
                   /\ \A j \in (Len(bundles) + 1)..Len(o.bs) : o.bs[j].parent # i

\* C33: an action over several bundles is all-or-nothing: when it fails for
\* one of the targeted bundles, no bundle has been split or changed and no
\* event of the action is in the stream.
C33_ActionAllOrNothing ==
    \A req \in LedgerRequests :
        \A o \in {ProcessOutcome(bundles, actions, links, req)} :
            o.error # NoError => o.bs = bundles /\ o.stream = <<>>

\* C39: whitelist add and remove are inverse and repeatable: once a source
\* account has been added to a target's whitelist and removed from it, it
\* can be added again.
C39_WhitelistAddAfterRemove ==
    \A target, source \in Accounts :
        links[<<target, source>>] = "deleted"
        => ENABLED AddToWhitelist(target, source)

(***************************************************************************)
(* Part VII: a partial transfer step by step.  Every coordinator call of   *)
(* the handler commits on its own: the parent's delete, the create of each *)
(* child and the update of child 1.  SpecSplitFaults has one request at a  *)
(* time and coordinator calls that fail; SpecConcSplit has requests in     *)
(* flight together and no failure.                                         *)
(***************************************************************************)
InitSteps ==
    /\ InitCQRS
    /\ InitMemory
    /\ actions = <<>>
    /\ links = [p \in Accounts \X Accounts |->
                   IF p = <<2, 1>> THEN "live" ELSE "none"]
    /\ pending = [r \in Reqs |-> NoPending]
    /\ account_user_ids = [a \in Accounts |-> CreatedUserIds(a)]
    /\ user_account_links = {<<u, a>> \in Users \X Accounts : u \in CreatedUserIds(a)}
    /\ \E range_start \in 0..1, energy \in 2..MaxSplitQuantity :
          LET c == MapMeteringToCertificates(<<energy>>, range_start, 1)[1]
          IN  bundles = <<[c EXCEPT !.hash = CreateBundleHash(c, <<>>)]>>

\* the transfers of a part of one bundle, by quantity
PartialTransfers ==
    {[action_type |-> "transfer", source_id |-> 1, target_id |-> 2, ids |-> {i},
      sel |-> [certificate_quantity |-> q, certificate_bundle_percentage |-> NoneVal],
      beneficiary |-> "None"] :
        i \in 1..MaxSplitRows, q \in 1..(MaxSplitQuantity - 1)}

\* the two children split_certificate_bundle builds from the bundle object
\* it was given
SplitChildren(row, i, size_to_split) ==
    LET t == SplitCertificateBundle(<<row>>, 1, size_to_split)
    IN  <<[t[2] EXCEPT !.parent = i], [t[3] EXCEPT !.parent = i]>>

RequestsInFlight == {r \in Reqs : pending[r] # NoPending}

\* transfer_certificates up to the call of split_certificate_bundle: the
\* admission checks, the query, the status check, and the selector sending
\* the bundle to the split, whose size check passes
TransferQuery(r, req) ==
    /\ pending[r] = NoPending
    /\ Len(bundles) + 2 * (Cardinality(RequestsInFlight) + 1) <= MaxSplitRows
    /\ Len(actions) + Cardinality(RequestsInFlight) + 1 <= MaxActions
    /\ AdmissionError(links, req) = NoError
    /\ QueryError(bundles, req) = NoError
    /\ \E i \in req.ids :
          /\ bundles[i].bundle_quantity > req.sel.certificate_quantity
          /\ ~SplitRaises(bundles[i], req.sel.certificate_quantity)
          /\ pending' = [pending EXCEPT ![r] =
                 [op |-> "split", stage |-> "delete", req |-> req, id |-> i,
                  row |-> bundles[i], child_1 |-> 0]]
    /\ UNCHANGED <<bundles, actions, links, cqrsVars, accVars, memVars>>

\* the parent's delete commits
SplitDelete(r) ==
    /\ pending[r].op = "split"
    /\ pending[r].stage = "delete"
    /\ bundles' = [bundles EXCEPT
                      ![pending[r].id].certificate_bundle_status = "BUNDLE_SPLIT",
                      ![pending[r].id].is_deleted = TRUE]
    /\ pending' = [pending EXCEPT ![r].stage = "create_1"]
    /\ UNCHANGED <<actions, links, cqrsVars, accVars, memVars>>

\* the parent's delete fails at a flush: delete_database_entities rolls back
\* and returns None, which the split does not look at
SplitDeleteFails(r) ==
    /\ pending[r].op = "split"
    /\ pending[r].stage = "delete"
    /\ pending' = [pending EXCEPT ![r].stage = "create_1"]
    /\ UNCHANGED <<bundles, actions, links, cqrsVars, accVars, memVars>>

SplitCreateChild1(r) ==
    /\ pending[r].op = "split"
    /\ pending[r].stage = "create_1"
    /\ bundles' = Append(bundles,
                         SplitChildren(pending[r].row, pending[r].id,
                                       pending[r].req.sel.certificate_quantity)[1])
    /\ pending' = [pending EXCEPT ![r].stage = "create_2",
                                  ![r].child_1 = Len(bundles) + 1]
    /\ UNCHANGED <<actions, links, cqrsVars, accVars, memVars>>

SplitCreateChild2(r) ==
    /\ pending[r].op = "split"
    /\ pending[r].stage = "create_2"
    /\ bundles' = Append(bundles,
                         SplitChildren(pending[r].row, pending[r].id,
                                       pending[r].req.sel.certificate_quantity)[2])
    /\ pending' = [pending EXCEPT ![r].stage = "update"]
    /\ UNCHANGED <<actions, links, cqrsVars, accVars, memVars>>

\* the create of a child fails: write_to_database rolls back and raises, and
\* the exception leaves the handler
SplitCreateFails(r) ==
    /\ pending[r].op = "split"
    /\ pending[r].stage \in {"create_1", "create_2"}
    /\ pending' = [pending EXCEPT ![r] = NoPending]
    /\ UNCHANGED <<bundles, actions, links, cqrsVars, accVars, memVars>>

\* the update of child 1's owner and the action row
TransferUpdate(r) ==
    /\ pending[r].op = "split"
    /\ pending[r].stage = "update"
    /\ bundles' = [bundles EXCEPT
                      ![pending[r].child_1] = UpdatedRow(@, pending[r].req)]
    /\ actions' = Append(actions, [action_type |-> pending[r].req.action_type])
    /\ pending' = [pending EXCEPT ![r] = NoPending]
    /\ UNCHANGED <<links, cqrsVars, accVars, memVars>>

\* a request that enters its handler when no other is in one
TransferQueryAlone(r, req) ==
    /\ RequestsInFlight = {}
    /\ TransferQuery(r, req)

NextSplitFaults ==
    \/ \E r \in Reqs, req \in PartialTransfers : TransferQueryAlone(r, req)
    \/ \E r \in Reqs : SplitDelete(r)
    \/ \E r \in Reqs : SplitDeleteFails(r)
    \/ \E r \in Reqs : SplitCreateChild1(r)
    \/ \E r \in Reqs : SplitCreateChild2(r)
    \/ \E r \in Reqs : SplitCreateFails(r)
    \/ \E r \in Reqs : TransferUpdate(r)

SpecSplitFaults == InitSteps /\ [][NextSplitFaults]_vars

NextConcSplit ==
    \/ \E r \in Reqs, req \in PartialTransfers : TransferQuery(r, req)
    \/ \E r \in Reqs : SplitDelete(r)
    \/ \E r \in Reqs : SplitCreateChild1(r)
    \/ \E r \in Reqs : SplitCreateChild2(r)
    \/ \E r \in Reqs : TransferUpdate(r)

SpecConcSplit == InitSteps /\ [][NextConcSplit]_vars

ChildrenOf(i) == {j \in 1..Len(bundles) : bundles[j].parent = i}

\* C32: a split is all-or-nothing: once the request has left its handler,
\* a parent that is not deleted has no child, and a soft-deleted parent is
\* BUNDLE_SPLIT and has both its children.
C32_SplitAllOrNothing ==
    RequestsInFlight = {}
    => \A i \in 1..Len(bundles) :
          IF bundles[i].is_deleted
          THEN /\ bundles[i].certificate_bundle_status = "BUNDLE_SPLIT"
               /\ Cardinality(ChildrenOf(i)) = 2
          ELSE ChildrenOf(i) = {}

\* the unit certificate ids of the bundle the table started with, and the
\* rows that are not deleted
OriginalIds == bundles[1].range_start..bundles[1].range_end

LiveRows == {i \in 1..Len(bundles) : ~bundles[i].is_deleted}

RECURSIVE SumQuantities(_)
SumQuantities(S) ==
    IF S = {} THEN 0
    ELSE LET i == CHOOSE x \in S : TRUE
         IN  bundles[i].bundle_quantity + SumQuantities(S \ {i})

\* C34: when the requests that targeted the same bundle have completed,
\* every unit certificate id of the original bundle is in exactly one
\* bundle that is not deleted, and the quantities of these sum to the
\* original quantity.
C34_ConcurrentActionsDisjoint ==
    RequestsInFlight = {}
    => /\ \A id \in OriginalIds :
             Cardinality({i \in LiveRows :
                 id \in bundles[i].range_start..bundles[i].range_end}) = 1
       /\ SumQuantities(LiveRows) = bundles[1].bundle_quantity

(***************************************************************************)
(* Part VIII: certificates issued against allocated storage records        *)
(* (storage/services.py).  The outcome of one call of                       *)
(* issue_sdgcs_against_allocated_records, for the rows of the bundle table  *)
(* the ledger can reach.                                                    *)
(***************************************************************************)

MaxFlowEnergy == 2    \* greatest flow_energy of a storage record

\* the allocated storage record a request names, with the columns of the
\* charge record (SCR) and discharge record (SDR) it points to that the
\* issuance reads; the route accepts the records of one device only, and a
\* request with more than one record has more than one device id in its list
AllocatedStorageRecords(bs) ==
    [id : {1},
     device_id : Devices,
     gc_allocation_id : 1..(Len(bs) + 1),
     sdr_proportion : {1},
     scr_flow_energy : 1..MaxFlowEnergy,
     scr_covers_gc_interval : BOOLEAN,
     sdr_flow_energy : 1..MaxFlowEnergy]

\* the bundles named by the record that are CANCELLED
CancelledGcBundles(bs, rec) ==
    {i \in 1..Len(bs) :
        /\ i = rec.gc_allocation_id
        /\ bs[i].certificate_bundle_status = "CANCELLED"}

\* the cancelled bundle has the quantity of the charge record's share and
\* starts inside the charge record's interval
ValidateAllocatedRecordsAgainstGcBundles(bs, rec) ==
    IF bs[rec.gc_allocation_id].bundle_quantity # rec.sdr_proportion * rec.scr_flow_energy
    THEN "does not have sufficient quantity"
    ELSE IF ~rec.scr_covers_gc_interval
         THEN "does not have sufficient datetime"
         ELSE NoError

\* model_dump_json exists on the bundle models and not on a dict
CreateBundleHashRaises(kind) == kind = "dict"

\* the candidate SD-GC of the record: quantity and range from the discharge
\* record's energy, the range starting at certificate_bundle_id_range_start;
\* the candidate is a dict, and its hash is asked of create_bundle_hash
MapAllocationToCertificates(rec, account_id, certificate_bundle_id_range_start) ==
    LET transformed ==
            [device_id |-> rec.device_id,
             account_id |-> account_id,
             range_start |-> certificate_bundle_id_range_start,
             range_end |-> certificate_bundle_id_range_start + rec.sdr_flow_energy - 1,
             bundle_quantity |-> rec.sdr_flow_energy,
             certificate_bundle_status |-> "ACTIVE",
             is_deleted |-> FALSE,
             is_storage |-> TRUE,
             beneficiary |-> "None",
             hash |-> <<>>,
             parent |-> 0]
    IN  IF CreateBundleHashRaises("dict")
        THEN [error |-> "AttributeError", mapped |-> <<>>]
        ELSE [error |-> NoError, mapped |-> <<transformed>>]

IssueSdgcsAgainstAllocatedRecords(bs, rec) ==
    IF CancelledGcBundles(bs, rec) = {}
    THEN [bs |-> bs, error |-> "GC bundle does not exist or has not been cancelled"]
    ELSE IF ValidateAllocatedRecordsAgainstGcBundles(bs, rec) # NoError
    THEN [bs |-> bs, error |-> ValidateAllocatedRecordsAgainstGcBundles(bs, rec)]
    ELSE IF GetMaxCertificateIdByDeviceId(bs, rec.device_id) = NoneVal
    THEN [bs |-> bs, error |-> "No certificate bundles found for device"]
    ELSE LET m == MapAllocationToCertificates(
                      rec, DeviceAccount(rec.device_id),
                      GetMaxCertificateIdByDeviceId(bs, rec.device_id) + 1)
         IN  IF m.error # NoError
             THEN [bs |-> bs, error |-> m.error]
             ELSE [bs |-> bs \o m.mapped, error |-> NoError]

\* the records that pass every check of the issuance before the mapping
ValidAllocatedStorageRecords(bs) ==
    {rec \in AllocatedStorageRecords(bs) :
        /\ CancelledGcBundles(bs, rec) # {}
        /\ ValidateAllocatedRecordsAgainstGcBundles(bs, rec) = NoError
        /\ GetMaxCertificateIdByDeviceId(bs, rec.device_id) # NoneVal}

\* C31: issuing against a valid allocated storage record creates one new
\* SD-GC: a storage bundle whose quantity is the flow_energy of the record's
\* discharge record and whose range [s, s + quantity - 1] continues the
\* storage device's sequence
C31_SdgcFromAllocatedRecord ==
    \A rec \in ValidAllocatedStorageRecords(bundles) :
        LET o == IssueSdgcsAgainstAllocatedRecords(bundles, rec)
            s == GetMaxCertificateIdByDeviceId(bundles, rec.device_id) + 1
        IN  /\ o.error = NoError
            /\ Len(o.bs) = Len(bundles) + 1
            /\ o.bs[Len(o.bs)].is_storage
            /\ o.bs[Len(o.bs)].bundle_quantity = rec.sdr_flow_energy
            /\ o.bs[Len(o.bs)].range_start = s
            /\ o.bs[Len(o.bs)].range_end = s + rec.sdr_flow_energy - 1

(***************************************************************************)
(* Part IX: the in-memory registry (src/granular_certificate_registry).     *)
(* One registry and its trading system; every method runs to its end       *)
(* before the next is called.                                               *)
(***************************************************************************)

MaxCerts == 2     \* hourly certificate ids
MaxTrades == 2    \* trade records kept

CertIds == 1..MaxCerts
NoOwner == "None"                        \* owner = None
OwnerNames == {"Owner1", "Owner2"}
MemStatuses == {"active", "canceled"}    \* CertificateStatus, two of its values
NegativePrice == -2
Prices == {NoneVal, 50, NegativePrice}   \* price_per_mwh: None, 50.0, -2.0

\* d.get(k, set()) of the owner index
OwnerCerts(by_owner, owner) ==
    IF owner \in DOMAIN by_owner THEN by_owner[owner] ELSE {}

\* d[k] = v of a dict
SetItem(d, k, v) == [x \in DOMAIN d \cup {k} |-> IF x = k THEN v ELSE d[x]]

register_hourly_certificate(certificate_id, owner, status) ==
    /\ certificate_id \notin DOMAIN hourly_certificates
    /\ hourly_certificates' =
           SetItem(hourly_certificates, certificate_id,
                   [owner |-> owner, status |-> status])
    /\ certificates_by_owner' =
           IF owner # NoOwner
           THEN SetItem(certificates_by_owner, owner,
                        OwnerCerts(certificates_by_owner, owner) \cup {certificate_id})
           ELSE certificates_by_owner
    /\ UNCHANGED <<trades, cqrsVars, regVars>>

update_certificate_status(certificate_id, status) ==
    /\ certificate_id \in DOMAIN hourly_certificates
    /\ hourly_certificates' =
           [hourly_certificates EXCEPT ![certificate_id].status = status]
    /\ UNCHANGED <<certificates_by_owner, trades, cqrsVars, regVars>>

\* the registry after update_certificate_owner(certificate_id, owner): the id
\* is discarded from the old owner's set when the certificate has an owner,
\* and added to the new owner's set
UpdateCertificateOwner(reg, certificate_id, owner) ==
    IF certificate_id \notin DOMAIN reg.certs THEN reg
    ELSE LET old == reg.certs[certificate_id].owner
             removed == IF old # NoOwner
                        THEN SetItem(reg.by_owner, old,
                                     OwnerCerts(reg.by_owner, old) \ {certificate_id})
                        ELSE reg.by_owner
         IN  [certs |-> [reg.certs EXCEPT ![certificate_id].owner = owner],
              by_owner |-> SetItem(removed, owner,
                                   OwnerCerts(removed, owner) \cup {certificate_id})]

update_certificate_owner(certificate_id, owner) ==
    /\ certificate_id \in DOMAIN hourly_certificates
    /\ \E reg \in {UpdateCertificateOwner(
                       [certs |-> hourly_certificates, by_owner |-> certificates_by_owner],
                       certificate_id, owner)} :
           /\ hourly_certificates' = reg.certs
           /\ certificates_by_owner' = reg.by_owner
    /\ UNCHANGED <<trades, cqrsVars, regVars>>

\* a trade request: the listed ids in order (an id may be listed twice)
TradeRequests ==
    [certificate_ids : UNION {[1..n -> CertIds] : n \in 0..MaxCerts},
     from_owner : OwnerNames,
     to_owner : OwnerNames,
     price_per_mwh : Prices]

\* the validation loop: a listed certificate does not exist, does not belong
\* to from_owner or is not active
TradeValidationSkipsStatus(certs, req) ==
    \E k \in 1..Len(req.certificate_ids) :
        LET cert_id == req.certificate_ids[k]
        IN  \/ cert_id \notin DOMAIN certs
            \/ certs[cert_id].owner # req.from_owner

TradeValidationRaises(certs, req) ==
    \E k \in 1..Len(req.certificate_ids) :
        LET cert_id == req.certificate_ids[k]
        IN  \/ cert_id \notin DOMAIN certs
            \/ certs[cert_id].owner # req.from_owner
            \/ certs[cert_id].status # "active"

\* CertificateTrade(...) refuses a price_per_mwh below 0
CertificateTradeRaises(req) ==
    req.price_per_mwh # NoneVal /\ req.price_per_mwh < 0

\* the loop that executes the trade
RECURSIVE ExecuteTrade(_, _, _)
ExecuteTrade(reg, certificate_ids, to_owner) ==
    IF certificate_ids = <<>> THEN reg
    ELSE ExecuteTrade(UpdateCertificateOwner(reg, Head(certificate_ids), to_owner),
                      Tail(certificate_ids), to_owner)

\* the registry and the trade records after trade_certificates(req)
TradeOutcome(certs, by_owner, trade_records, req) ==
    IF TradeValidationRaises(certs, req)
    THEN [certs |-> certs, by_owner |-> by_owner, trades |-> trade_records,
          error |-> "ValueError"]
    ELSE IF CertificateTradeRaises(req)
    THEN [certs |-> certs, by_owner |-> by_owner, trades |-> trade_records,
          error |-> "ValidationError"]
    ELSE LET reg == ExecuteTrade([certs |-> certs, by_owner |-> by_owner],
                                 req.certificate_ids, req.to_owner)
         IN  [certs |-> reg.certs, by_owner |-> reg.by_owner,
              trades |-> Append(trade_records, req),
              error |-> NoError]

trade_certificates(req) ==
    /\ Len(trades) < MaxTrades
    /\ \E o \in {TradeOutcome(hourly_certificates, certificates_by_owner, trades, req)} :
           /\ hourly_certificates' = o.certs
           /\ certificates_by_owner' = o.by_owner
           /\ trades' = o.trades
    /\ UNCHANGED <<cqrsVars, regVars>>

NextMemory ==
    \/ \E id \in CertIds, owner \in OwnerNames \cup {NoOwner}, status \in MemStatuses :
           register_hourly_certificate(id, owner, status)
    \/ \E id \in CertIds, status \in MemStatuses : update_certificate_status(id, status)
    \/ \E id \in CertIds, owner \in OwnerNames : update_certificate_owner(id, owner)
    \/ \E req \in TradeRequests : trade_certificates(req)

SpecMemory == InitAll /\ [][NextMemory]_vars

\* the claim's condition of a failing trade: a listed certificate is
\* missing, not owned by from_owner or not ACTIVE
SomeListedCertificateInvalid(req) ==
    \E k \in 1..Len(req.certificate_ids) :
        \/ req.certificate_ids[k] \notin DOMAIN hourly_certificates
        \/ hourly_certificates[req.certificate_ids[k]].owner # req.from_owner
        \/ hourly_certificates[req.certificate_ids[k]].status # "active"

TradeChangesNothing(o) ==
    /\ o.error # NoError
    /\ o.certs = hourly_certificates
    /\ o.by_owner = certificates_by_owner
    /\ o.trades = trades

\* C40: trade_certificates is all-or-nothing.  When a listed certificate is
\* missing, not owned by from_owner or not ACTIVE, or when the price is below
\* zero, the call raises and no certificate's owner, no owner index and no
\* trade record changes; otherwise every listed certificate ends owned by
\* to_owner and listed under to_owner, and, when to_owner is another owner
\* than from_owner, no longer listed under from_owner
C40_TradeAllOrNothing ==
    \A req \in TradeRequests :
        LET o == TradeOutcome(hourly_certificates, certificates_by_owner, trades, req)
        IN  IF SomeListedCertificateInvalid(req) \/ req.price_per_mwh = NegativePrice
            THEN TradeChangesNothing(o)
            ELSE /\ o.error = NoError
                 /\ \A k \in 1..Len(req.certificate_ids) :
                        LET cert_id == req.certificate_ids[k]
                        IN  /\ o.certs[cert_id].owner = req.to_owner
                            /\ cert_id \in OwnerCerts(o.by_owner, req.to_owner)
                            /\ req.to_owner # req.from_owner
                                   => cert_id \notin OwnerCerts(o.by_owner, req.from_owner)

\* a trade between two owners has been executed: its certificates are
\* owned by and listed under to_owner
C40_Witness ==
    /\ trades # <<>>
    /\ LET t == trades[Len(trades)]
       IN  /\ t.certificate_ids # <<>>
           /\ t.to_owner # t.from_owner
           /\ \A k \in 1..Len(t.certificate_ids) :
                  /\ hourly_certificates[t.certificate_ids[k]].owner = t.to_owner
                  /\ t.certificate_ids[k] \in OwnerCerts(certificates_by_owner, t.to_owner)

\* C40 as stated: whenever every listed certificate exists, is owned by
\* from_owner and is ACTIVE, every listed certificate ends owned by to_owner,
\* listed under to_owner and no longer under from_owner
C40_TradeMovesEveryCertificate ==
    \A req \in TradeRequests :
        LET o == TradeOutcome(hourly_certificates, certificates_by_owner, trades, req)
        IN  IF SomeListedCertificateInvalid(req)
            THEN TradeChangesNothing(o)
            ELSE /\ o.error = NoError
                 /\ \A k \in 1..Len(req.certificate_ids) :
                        LET cert_id == req.certificate_ids[k]
                        IN  /\ o.certs[cert_id].owner = req.to_owner
                            /\ cert_id \in OwnerCerts(o.by_owner, req.to_owner)
                            /\ cert_id \notin OwnerCerts(o.by_owner, req.from_owner)

====
